---- MODULE Spec2Model ----
(***************************************************************************)
(* BioChain: the on-chain record codec, the ledger write and read-back and *)
(* the wallet detection of services/solanaService.ts, and the summary      *)
(* generation, the Report view and its PDF export of                       *)
(* services/geminiService.ts, as state machines.                           *)
(*                                                                         *)
(* Text is a sequence of UTF-16 code units, a byte buffer a sequence of    *)
(* 0..255.  A JavaScript number is kept as the decimal (sign, digits, n)   *)
(* that Number::toString works from: the shortest digit string that        *)
(* identifies the double, and the position n of the decimal point.         *)
(***************************************************************************)
EXTENDS Integers, Sequences, FiniteSets, TLC

VARIABLES
    \* ---- record codec (serializeDockingReport / deserializeDockingReport)
    report,      \* the DockingReportSchema handed to the encoder
    wire,        \* the byte buffer between encoder and decoder
    decoded,     \* outcome of deserializeDockingReport: [threw, value]
    cstage,      \* "off" | "start" | "encoded" | "received" | "roundtrip" | "decoded"
    \* ---- ledger read (fetchJobFromChain)
    fpc,         \* "off" | "idle" | "getTransaction" | "done"
    ftx,         \* what connection.getTransaction settled with
    fresult,     \* outcome of the call: [kind, value]
    \* ---- browser-injected wallet state
    win,         \* the globals window.phantom and window.solana
    walletKey,   \* provider.publicKey: "null" or the connected account
    \* ---- ledger write (verifyJobOnChain)
    vpc,         \* "off" | "idle" | "blockhash" | "signing" | "confirming" | "done"
    vargs,       \* the arguments of the call and the value of Date.now()
    vdata,       \* instructionData, serialized before the first await
    vtx,         \* the transaction handed to signAndSendTransaction
    vsig,        \* the signature the wallet answered with
    vtrace,      \* the requests made and their settlements, in order
    vcause,      \* the error the environment raised, "none" if none
    voutcome,    \* how the call ended: [kind, error, signature]
    \* ---- wallet detection (connectWallet)
    kpc,         \* "off" | "idle" | "sleep" | "connecting" | "done"
    kmobile,     \* the user agent is a mobile one
    ki,          \* the loop variable i
    kabsent,     \* probes of this call that found no provider
    kwaits,      \* 100 ms waits of this call that have elapsed
    kelapsed,    \* milliseconds waited by this call
    koutcome,    \* how the call ended
    \* ---- summary generation (generateReportFromStats)
    gpc,         \* "off" | "idle" | "timer" | "generating" | "done"
    gkey,        \* process.env.API_KEY is configured
    gargs,       \* the arguments of the call: [moleculeName, stats]
    gclock,      \* milliseconds since the call
    gerr,        \* the value generateContent rejected with
    goutcome,    \* how the call ended: [kind, text]
    \* ---- the Report view (Report component)
    rtab,        \* activeTab: "off" | "summary" | "details" | "audit"
    rjob,        \* the job prop: [id, moleculeName, txHash, status, hasStats, score]
    rconnected,  \* the isWalletConnected prop
    raiReport,   \* aiReport, the summary text ("" until generated)
    ronChain,    \* onChainData: null or the record read back
    rflags,      \* [mounted, generating, loading, exporting]
    rpending,    \* promises in flight: [gen, fetch, export, latest, shown]
    rlog,        \* the verify requests handled: [connected, displayed, invoked, alerted]
    \* ---- PDF export (handleExportPDF)
    xpc,         \* "off" | "idle" | "mol" | "charts" | "done"
    xin,         \* what the export finds: nodes, stats, txHash, sizes, failures
    xdoc,        \* the jsPDF document: [y, pages, blocks, raised]
    xout,        \* isExporting, and how the last export ended: [saved, alerted, exporting]
    \* ---- MoleculeViewer
    viewMode,    \* "ribbon", "surface" or "ball-stick"
    isRotating,  \* auto-rotation is on
    zoom,        \* the zoom factor, in tenths
    pan,         \* [x, y] in pixels
    rotation,    \* [x, y] in tenths of a degree
    bgMode,      \* "midnight", "dark" or "light"
    interactionMode, \* "rotate" or "pan"
    showHBonds,  \* hydrogen bonds are drawn
    selectedHBond, \* "null" or a bond id
    isDragging,  \* a drag is under way
    dragStartRef \* "null" or "point"

codecVars  == <<report, wire, decoded, cstage>>
fetchVars  == <<fpc, ftx, fresult>>
walletVars == <<win, walletKey>>
verifyVars == <<vpc, vargs, vdata, vtx, vsig, vtrace, vcause, voutcome>>
connectVars == <<kpc, kmobile, ki, kabsent, kwaits, kelapsed, koutcome>>
genVars == <<gpc, gkey, gargs, gclock, gerr, goutcome>>
reportVars == <<rtab, rjob, rconnected, raiReport, ronChain, rflags, rpending, rlog>>
exportVars == <<xpc, xin, xdoc, xout>>
viewerVars == <<viewMode, isRotating, zoom, pan, rotation, bgMode, interactionMode, showHBonds, selectedHBond, isDragging, dragStartRef>>

vars == <<codecVars, fetchVars, walletVars, verifyVars, connectVars, genVars, reportVars, exportVars, viewerVars>>

\* the variables each part leaves alone
codecFrame   == <<fetchVars, walletVars, verifyVars, connectVars, genVars, reportVars, exportVars, viewerVars>>
fetchFrame   == <<codecVars, walletVars, verifyVars, connectVars, genVars, reportVars, exportVars, viewerVars>>
verifyFrame  == <<codecVars, fetchVars, connectVars, genVars, reportVars, exportVars, viewerVars>>
connectFrame == <<codecVars, fetchVars, verifyVars, genVars, reportVars, exportVars, viewerVars>>
genFrame == <<codecVars, fetchVars, walletVars, verifyVars, connectVars, reportVars, exportVars, viewerVars>>
reportFrame == <<codecVars, fetchVars, walletVars, verifyVars, connectVars, genVars, exportVars, viewerVars>>
exportFrame == <<codecVars, fetchVars, walletVars, verifyVars, connectVars, genVars, reportVars, viewerVars>>
viewerFrame == <<codecVars, fetchVars, walletVars, verifyVars, connectVars, genVars, reportVars, exportVars>>

-----------------------------------------------------------------------------
(* Bounds of the model.                                                    *)

MaxStrLen == 2      \* longest jobId drawn from StrAlphabet
MaxRawLen == 3      \* longest arbitrary byte buffer drawn from RawAlphabet
MaxKeys   == 2      \* most static account keys of a fetched transaction
MaxInstr  == 2      \* most compiled instructions of a fetched transaction

-----------------------------------------------------------------------------
(* JavaScript values.  Every value has the same record shape so that any   *)
(* two values can be compared.                                             *)

NumZero == [neg |-> FALSE, digs |-> <<>>, n |-> 0]

JSVal(t, b, num, s, items, keys) ==
    [t |-> t, b |-> b, num |-> num, s |-> s, items |-> items, keys |-> keys]

JSUndefined == JSVal("undefined", FALSE, NumZero, <<>>, <<>>, <<>>)
JSNull      == JSVal("null", FALSE, NumZero, <<>>, <<>>, <<>>)
JSBool(b)   == JSVal("boolean", b, NumZero, <<>>, <<>>, <<>>)
JSNum(x)    == JSVal("number", FALSE, x, <<>>, <<>>, <<>>)
JSStr(s)    == JSVal("string", FALSE, NumZero, s, <<>>, <<>>)
JSArr(items) == JSVal("array", FALSE, NumZero, <<>>, items, <<>>)
\* an object: keys[i] is the name of the member whose value is items[i]
JSObj(keys, items) == JSVal("object", FALSE, NumZero, <<>>, items, keys)

\* ToBoolean: what `if (fields)` tests
Truthy(v) ==
    CASE v.t = "undefined" -> FALSE
      [] v.t = "null"      -> FALSE
      [] v.t = "boolean"   -> v.b
      [] v.t = "number"    -> v.num.digs # <<>>
      [] v.t = "string"    -> v.s # <<>>
      [] OTHER             -> TRUE

RECURSIVE LastIndexOf(_, _, _)
\* the last position <= i of key k in keys, 0 when absent
LastIndexOf(keys, k, i) ==
    IF i = 0 THEN 0
    ELSE IF keys[i] = k THEN i
    ELSE LastIndexOf(keys, k, i - 1)

\* v.k for a value v that is neither null nor undefined: the member of an
\* object parsed from JSON (a repeated name keeps its last value), and
\* undefined on a number, a boolean, a string or an array
GetProp(v, k) ==
    IF v.t = "object"
    THEN LET i == LastIndexOf(v.keys, k, Len(v.keys))
         IN  IF i = 0 THEN JSUndefined ELSE v.items[i]
    ELSE JSUndefined

-----------------------------------------------------------------------------
(* Property names and fixed texts.                                         *)

K_jobId        == <<106, 111, 98, 73, 100>>
K_moleculeName == <<109, 111, 108, 101, 99, 117, 108, 101, 78, 97, 109, 101>>
K_score        == <<115, 99, 111, 114, 101>>
K_timestamp    == <<116, 105, 109, 101, 115, 116, 97, 109, 112>>

-----------------------------------------------------------------------------
(* The record class.                                                       *)

\* new DockingReportSchema(): the field initialisers
EmptyReport ==
    [jobId |-> JSStr(<<>>), moleculeName |-> JSStr(<<>>),
     score |-> JSNum(NumZero), timestamp |-> JSNum(NumZero)]

\* new DockingReportSchema(fields)
DockingReportSchema(fields) ==
    IF Truthy(fields)
    THEN [jobId        |-> GetProp(fields, K_jobId),
          moleculeName |-> GetProp(fields, K_moleculeName),
          score        |-> GetProp(fields, K_score),
          timestamp    |-> GetProp(fields, K_timestamp)]
    ELSE EmptyReport

-----------------------------------------------------------------------------
(* JSON.stringify of the record.                                           *)

Digit(d) == 48 + d

RECURSIVE Zeros(_)
Zeros(k) == IF k <= 0 THEN <<>> ELSE <<48>> \o Zeros(k - 1)

RECURSIVE IntToText(_)
\* decimal text of a natural number
IntToText(m) ==
    IF m < 10 THEN <<Digit(m)>> ELSE IntToText(m \div 10) \o <<Digit(m % 10)>>

DigitsText(ds) == [i \in 1..Len(ds) |-> Digit(ds[i])]

\* Number::toString(x), radix 10
NumberToString(x) ==
    LET k == Len(x.digs)
        n == x.n
        e == n - 1
        body ==
            IF k <= n /\ n <= 21
            THEN DigitsText(x.digs) \o Zeros(n - k)
            ELSE IF 0 < n /\ n <= 21
            THEN DigitsText(SubSeq(x.digs, 1, n)) \o <<46>>
                     \o DigitsText(SubSeq(x.digs, n + 1, k))
            ELSE IF -6 < n /\ n <= 0
            THEN <<48, 46>> \o Zeros(-n) \o DigitsText(x.digs)
            ELSE (IF k = 1
                  THEN DigitsText(x.digs)
                  ELSE <<Digit(x.digs[1]), 46>> \o DigitsText(SubSeq(x.digs, 2, k)))
                 \o <<101, IF e < 0 THEN 45 ELSE 43>>
                 \o IntToText(IF e < 0 THEN -e ELSE e)
    IN  IF k = 0 THEN <<48>>                  \* +0 and -0 both print as "0"
        ELSE IF x.neg THEN <<45>> \o body
        ELSE body

HexDigit(d) == IF d < 10 THEN 48 + d ELSE 87 + d

\* \uXXXX with lower-case hexadecimal digits
UnicodeEscape(c) ==
    <<92, 117, HexDigit(c \div 4096), HexDigit((c \div 256) % 16),
      HexDigit((c \div 16) % 16), HexDigit(c % 16)>>

IsHighSurrogate(c) == 55296 <= c /\ c <= 56319
IsLowSurrogate(c)  == 56320 <= c /\ c <= 57343

\* a low surrogate at position i that completes a pair begun at i - 1
IsPairTail(s, i) == i > 1 /\ IsLowSurrogate(s[i]) /\ IsHighSurrogate(s[i - 1])
\* a high surrogate at position i that is followed by a low surrogate
IsPairHead(s, i) == i < Len(s) /\ IsHighSurrogate(s[i]) /\ IsLowSurrogate(s[i + 1])

RECURSIVE Flatten(_, _, _)
\* the concatenation of the sequences ss[lo], ..., ss[hi]
Flatten(ss, lo, hi) ==
    IF lo > hi THEN <<>>
    ELSE IF lo = hi THEN ss[lo]
    ELSE Flatten(ss, lo, (lo + hi) \div 2) \o Flatten(ss, (lo + hi) \div 2 + 1, hi)

\* the code unit copied without escaping
QuoteUnitRaw(s, i) == <<s[i]>>

\* what QuoteJSONString appends for the code unit at position i of s
QuoteUnit(s, i) ==
    LET c == s[i] IN
    IF IsPairHead(s, i) \/ IsPairTail(s, i) THEN <<c>>
    ELSE CASE c = 8  -> <<92, 98>>
           [] c = 9  -> <<92, 116>>
           [] c = 10 -> <<92, 110>>
           [] c = 12 -> <<92, 102>>
           [] c = 13 -> <<92, 114>>
           [] c = 34 -> <<92, 34>>
           [] c = 92 -> <<92, 92>>
           [] OTHER  ->
                IF c < 32 \/ IsHighSurrogate(c) \/ IsLowSurrogate(c)
                THEN UnicodeEscape(c)
                ELSE <<c>>

\* the code points of s, escaped
QuoteBody(s) == Flatten([i \in 1..Len(s) |-> QuoteUnit(s, i)], 1, Len(s))

\* QuoteJSONString
QuoteJSONString(s) == <<34>> \o QuoteBody(s) \o <<34>>

\* SerializeJSONProperty for the values a record field can hold
SerializeJSONValue(v) ==
    CASE v.t = "string" -> QuoteJSONString(v.s)
      [] v.t = "number" -> NumberToString(v.num)
      [] OTHER          -> <<110, 117, 108, 108>>

\* JSON.stringify(data): the four own properties in creation order
JSONStringify(data) ==
    <<123>> \o QuoteJSONString(K_jobId) \o <<58>> \o SerializeJSONValue(data.jobId)
    \o <<44>> \o QuoteJSONString(K_moleculeName) \o <<58>>
    \o SerializeJSONValue(data.moleculeName)
    \o <<44>> \o QuoteJSONString(K_score) \o <<58>> \o SerializeJSONValue(data.score)
    \o <<44>> \o QuoteJSONString(K_timestamp) \o <<58>>
    \o SerializeJSONValue(data.timestamp)
    \o <<125>>

-----------------------------------------------------------------------------
(* TextEncoder / TextDecoder (UTF-8).                                      *)

\* the UTF-8 bytes of one code point
EncodeCodePoint(cp) ==
    IF cp < 128 THEN <<cp>>
    ELSE IF cp < 2048 THEN <<192 + (cp \div 64), 128 + (cp % 64)>>
    ELSE IF cp < 65536
    THEN <<224 + (cp \div 4096), 128 + ((cp \div 64) % 64), 128 + (cp % 64)>>
    ELSE <<240 + (cp \div 262144), 128 + ((cp \div 4096) % 64),
           128 + ((cp \div 64) % 64), 128 + (cp % 64)>>

\* the bytes for the code unit at position i of s: a surrogate pair is
\* encoded at its head, a surrogate outside a pair becomes U+FFFD
EncodeUnit(s, i) ==
    LET c == s[i] IN
    IF IsPairHead(s, i)
    THEN EncodeCodePoint(65536 + (c - 55296) * 1024 + (s[i + 1] - 56320))
    ELSE IF IsPairTail(s, i) THEN <<>>
    ELSE IF IsHighSurrogate(c) \/ IsLowSurrogate(c) THEN <<239, 191, 189>>
    ELSE EncodeCodePoint(c)

\* new TextEncoder().encode(text)
TextEncode(text) == Flatten([i \in 1..Len(text) |-> EncodeUnit(text, i)], 1, Len(text))

\* the UTF-16 code units of one code point
CodeUnits(cp) ==
    IF cp < 65536 THEN <<cp>>
    ELSE <<55296 + ((cp - 65536) \div 1024), 56320 + ((cp - 65536) % 1024)>>

IsCont(b) == 128 <= b /\ b <= 191

IsLead(b) == 194 <= b /\ b <= 244

\* for a lead byte at position i: [len, cp], the number of bytes of the
\* sequence it starts and the code point, cp = -1 when the sequence is
\* ill-formed and len is then the length of its maximal valid prefix
Sequence(bs, i) ==
    LET b0  == bs[i]
        b(j) == IF i + j <= Len(bs) THEN bs[i + j] ELSE -1
        lo2 == IF b0 = 224 THEN 160 ELSE IF b0 = 240 THEN 144 ELSE 128
        hi2 == IF b0 = 237 THEN 159 ELSE IF b0 = 244 THEN 143 ELSE 191
        ok2 == lo2 <= b(1) /\ b(1) <= hi2
        ok3 == ok2 /\ IsCont(b(2))
        ok4 == ok3 /\ IsCont(b(3))
    IN  IF b0 <= 223
        THEN IF ok2 THEN [len |-> 2, cp |-> (b0 - 192) * 64 + (b(1) - 128)]
             ELSE [len |-> 1, cp |-> -1]
        ELSE IF b0 <= 239
        THEN IF ok3
             THEN [len |-> 3,
                   cp |-> (b0 - 224) * 4096 + (b(1) - 128) * 64 + (b(2) - 128)]
             ELSE [len |-> IF ok2 THEN 2 ELSE 1, cp |-> -1]
        ELSE IF ok4
             THEN [len |-> 4,
                   cp |-> (b0 - 240) * 262144 + (b(1) - 128) * 4096
                          + (b(2) - 128) * 64 + (b(3) - 128)]
             ELSE [len |-> IF ok3 THEN 3 ELSE IF ok2 THEN 2 ELSE 1, cp |-> -1]

\* the byte at position i was consumed by the sequence of an earlier lead
IsConsumed(bs, i) ==
    \E p \in 1..(i - 1) : i - p <= 3 /\ IsLead(bs[p]) /\ p + Sequence(bs, p).len > i

\* what the WHATWG UTF-8 decoder (without the fatal flag) emits at the byte
\* at position i: an ill-formed sequence yields one U+FFFD
DecodeUnit(bs, i) ==
    LET b0 == bs[i] IN
    IF b0 < 128 THEN <<b0>>
    ELSE IF IsLead(b0)
    THEN LET q == Sequence(bs, i)
         IN  IF q.cp < 0 THEN <<65533>> ELSE CodeUnits(q.cp)
    ELSE IF IsConsumed(bs, i) THEN <<>>
    ELSE <<65533>>

DecodeFrom(bs, from) ==
    Flatten([i \in 1..Len(bs) |-> IF i < from THEN <<>> ELSE DecodeUnit(bs, i)],
            1, Len(bs))

\* new TextDecoder().decode(bytes): ignoreBOM is false, so a leading byte
\* order mark is dropped
TextDecode(bs) ==
    IF Len(bs) >= 3 /\ bs[1] = 239 /\ bs[2] = 187 /\ bs[3] = 191
    THEN DecodeFrom(bs, 4)
    ELSE DecodeFrom(bs, 1)

-----------------------------------------------------------------------------
(* JSON.parse.  A parser result is [ok, v, i]: whether a value was read,   *)
(* the value, and the position after it.  ok = FALSE is the SyntaxError.   *)

ParseFail == [ok |-> FALSE, v |-> JSUndefined, i |-> 0]
ParseOk(v, i) == [ok |-> TRUE, v |-> v, i |-> i]

IsWS(c) == c \in {9, 10, 13, 32}
IsDigit(c) == 48 <= c /\ c <= 57

RECURSIVE SkipWS(_, _)
SkipWS(t, i) == IF i <= Len(t) /\ IsWS(t[i]) THEN SkipWS(t, i + 1) ELSE i

\* the character at position i, or -1 past the end of the text
At(t, i) == IF 1 <= i /\ i <= Len(t) THEN t[i] ELSE -1

HexVal(c) ==
    IF 48 <= c /\ c <= 57 THEN c - 48
    ELSE IF 65 <= c /\ c <= 70 THEN c - 55
    ELSE IF 97 <= c /\ c <= 102 THEN c - 87
    ELSE -1

RECURSIVE StringBody(_, _, _)
\* the characters of a string literal after its opening quote
StringBody(t, i, acc) ==
    IF i > Len(t) THEN ParseFail
    ELSE LET c == t[i] IN
         IF c = 34 THEN ParseOk(JSStr(acc), i + 1)
         ELSE IF c < 32 THEN ParseFail
         ELSE IF c # 92 THEN StringBody(t, i + 1, Append(acc, c))
         ELSE LET e == At(t, i + 1) IN
              CASE e = 34  -> StringBody(t, i + 2, Append(acc, 34))
                [] e = 92  -> StringBody(t, i + 2, Append(acc, 92))
                [] e = 47  -> StringBody(t, i + 2, Append(acc, 47))
                [] e = 98  -> StringBody(t, i + 2, Append(acc, 8))
                [] e = 102 -> StringBody(t, i + 2, Append(acc, 12))
                [] e = 110 -> StringBody(t, i + 2, Append(acc, 10))
                [] e = 114 -> StringBody(t, i + 2, Append(acc, 13))
                [] e = 116 -> StringBody(t, i + 2, Append(acc, 9))
                [] e = 117 ->
                     IF \A j \in 2..5 : HexVal(At(t, i + j)) >= 0
                     THEN StringBody(t, i + 6,
                              Append(acc, HexVal(t[i + 2]) * 4096 + HexVal(t[i + 3]) * 256
                                          + HexVal(t[i + 4]) * 16 + HexVal(t[i + 5])))
                     ELSE ParseFail
                [] OTHER   -> ParseFail

RECURSIVE DigitsEnd(_, _)
\* the position after the run of digits that starts at i
DigitsEnd(t, i) == IF IsDigit(At(t, i)) THEN DigitsEnd(t, i + 1) ELSE i

RECURSIVE TextToInt(_, _, _)
\* the value of the digits t[i..j-1]
TextToInt(t, i, j) ==
    IF i >= j THEN 0 ELSE TextToInt(t, i, j - 1) * 10 + (t[j - 1] - 48)

RECURSIVE LeadingZeros(_, _)
LeadingZeros(ds, i) ==
    IF i <= Len(ds) /\ ds[i] = 0 THEN 1 + LeadingZeros(ds, i + 1) ELSE 0

RECURSIVE StripTrailingZeros(_)
StripTrailingZeros(ds) ==
    IF ds # <<>> /\ ds[Len(ds)] = 0
    THEN StripTrailingZeros(SubSeq(ds, 1, Len(ds) - 1))
    ELSE ds

\* the number that the digits ds, with the decimal point after the first
\* `point` of them, denote
Normalize(neg, ds, point) ==
    LET z    == LeadingZeros(ds, 1)
        digs == StripTrailingZeros(SubSeq(ds, z + 1, Len(ds)))
    IN  IF digs = <<>> THEN [neg |-> neg, digs |-> <<>>, n |-> 0]
        ELSE [neg |-> neg, digs |-> digs, n |-> point - z]

\* the digits t[from], ..., t[to - 1] as numbers
DigitsOf(t, from, to) == [k \in 1..(to - from) |-> t[from + k - 1] - 48]

\* the number read: integer digits t[i1..intEnd-1], fraction digits
\* t[intEnd+1..fracEnd-1] when there is a fraction, and a decimal exponent
NumberValue(t, neg, i1, intEnd, fracEnd, expVal, end) ==
    ParseOk(JSNum(Normalize(neg,
                            DigitsOf(t, i1, intEnd)
                                \o (IF fracEnd > intEnd
                                    THEN DigitsOf(t, intEnd + 1, fracEnd) ELSE <<>>),
                            (intEnd - i1) + expVal)),
            end)

\* the exponent digits t[e1..expEnd-1], at least one
NumberExp(t, neg, i1, intEnd, fracEnd, expNeg, e1, expEnd) ==
    IF expEnd = e1 THEN ParseFail
    ELSE NumberValue(t, neg, i1, intEnd, fracEnd,
                     IF expNeg THEN -TextToInt(t, e1, expEnd) ELSE TextToInt(t, e1, expEnd),
                     expEnd)

\* the optional sign of the exponent
NumberExpSign(t, neg, i1, intEnd, fracEnd, expNeg, e1) ==
    NumberExp(t, neg, i1, intEnd, fracEnd, expNeg, e1, DigitsEnd(t, e1))

\* after the fraction: ([eE] [+-]? [0-9]+)?
NumberAfterFrac(t, neg, i1, intEnd, fracEnd) ==
    IF At(t, fracEnd) \in {69, 101}
    THEN NumberExpSign(t, neg, i1, intEnd, fracEnd, At(t, fracEnd + 1) = 45,
                       IF At(t, fracEnd + 1) \in {43, 45} THEN fracEnd + 2 ELSE fracEnd + 1)
    ELSE NumberValue(t, neg, i1, intEnd, fracEnd, 0, fracEnd)

\* the fraction digits, at least one
NumberFrac(t, neg, i1, intEnd, fracEnd) ==
    IF fracEnd = intEnd + 1 THEN ParseFail
    ELSE NumberAfterFrac(t, neg, i1, intEnd, fracEnd)

\* after the integer part: (. [0-9]+)?
NumberAfterInt(t, neg, i1, intEnd) ==
    IF intEnd = i1 THEN ParseFail
    ELSE IF At(t, intEnd) = 46
    THEN NumberFrac(t, neg, i1, intEnd, DigitsEnd(t, intEnd + 1))
    ELSE NumberAfterFrac(t, neg, i1, intEnd, intEnd)

\* the integer part: 0 | [1-9][0-9]*
NumberInt(t, neg, i1) ==
    NumberAfterInt(t, neg, i1, IF At(t, i1) = 48 THEN i1 + 1 ELSE DigitsEnd(t, i1))

\* a JSON number: -? (0 | [1-9][0-9]*) (. [0-9]+)? ([eE] [+-]? [0-9]+)?
ParseNumber(t, i) ==
    NumberInt(t, At(t, i) = 45, IF At(t, i) = 45 THEN i + 1 ELSE i)

IsLiteral(t, i, word) ==
    i + Len(word) - 1 <= Len(t) /\ SubSeq(t, i, i + Len(word) - 1) = word

RECURSIVE ParseValue(_, _)
RECURSIVE ParseElements(_, _, _)
RECURSIVE ParseMembers(_, _, _, _)
RECURSIVE ElementRead(_, _, _)
RECURSIVE ElementNext(_, _, _)
RECURSIVE MemberName(_, _, _, _)
RECURSIVE MemberColon(_, _, _, _, _)
RECURSIVE MemberValue(_, _, _, _, _)
RECURSIVE MemberNext(_, _, _, _)

\* an object after its opening brace and white space
ObjectBody(t, j) ==
    IF At(t, j) = 125 THEN ParseOk(JSObj(<<>>, <<>>), j + 1)
    ELSE ParseMembers(t, j, <<>>, <<>>)

\* an array after its opening bracket and white space
ArrayBody(t, j) ==
    IF At(t, j) = 93 THEN ParseOk(JSArr(<<>>), j + 1)
    ELSE ParseElements(t, j, <<>>)

\* the value that starts with character c at position i
ValueAt(t, i, c) ==
    CASE c = 34  -> StringBody(t, i + 1, <<>>)
      [] c = 123 -> ObjectBody(t, SkipWS(t, i + 1))
      [] c = 91  -> ArrayBody(t, SkipWS(t, i + 1))
      [] c = 110 -> IF IsLiteral(t, i, <<110, 117, 108, 108>>)
                    THEN ParseOk(JSNull, i + 4) ELSE ParseFail
      [] c = 116 -> IF IsLiteral(t, i, <<116, 114, 117, 101>>)
                    THEN ParseOk(JSBool(TRUE), i + 4) ELSE ParseFail
      [] c = 102 -> IF IsLiteral(t, i, <<102, 97, 108, 115, 101>>)
                    THEN ParseOk(JSBool(FALSE), i + 5) ELSE ParseFail
      [] c = 45 \/ IsDigit(c) -> ParseNumber(t, i)
      [] OTHER   -> ParseFail

\* the value that starts at position i
ParseValue(t, i) == ValueAt(t, i, At(t, i))

\* the elements of an array from position i on, up to the closing bracket
ParseElements(t, i, items) == ElementRead(t, items, ParseValue(t, i))

\* after an element was read as r
ElementRead(t, items, r) ==
    IF ~r.ok THEN ParseFail
    ELSE ElementNext(t, Append(items, r.v), SkipWS(t, r.i))

\* after an element: a comma and more elements, or the closing bracket at j
ElementNext(t, items, j) ==
    IF At(t, j) = 44 THEN ParseElements(t, SkipWS(t, j + 1), items)
    ELSE IF At(t, j) = 93 THEN ParseOk(JSArr(items), j + 1)
    ELSE ParseFail

\* the members of an object from position i on, up to the closing brace
ParseMembers(t, i, keys, items) ==
    IF At(t, i) # 34 THEN ParseFail
    ELSE MemberName(t, keys, items, StringBody(t, i + 1, <<>>))

\* after a member's name was read as k
MemberName(t, keys, items, k) ==
    IF ~k.ok THEN ParseFail
    ELSE MemberColon(t, keys, items, k.v.s, SkipWS(t, k.i))

\* the colon at j, then the member's value
MemberColon(t, keys, items, name, j) ==
    IF At(t, j) # 58 THEN ParseFail
    ELSE MemberValue(t, keys, items, name, ParseValue(t, SkipWS(t, j + 1)))

\* after a member's value was read as r
MemberValue(t, keys, items, name, r) ==
    IF ~r.ok THEN ParseFail
    ELSE MemberNext(t, Append(keys, name), Append(items, r.v), SkipWS(t, r.i))

\* after a member: a comma and more members, or the closing brace at m
MemberNext(t, keys, items, m) ==
    IF At(t, m) = 44 THEN ParseMembers(t, SkipWS(t, m + 1), keys, items)
    ELSE IF At(t, m) = 125 THEN ParseOk(JSObj(keys, items), m + 1)
    ELSE ParseFail

\* the text is one value r followed by nothing but white space
WholeText(text, r) ==
    IF r.ok /\ SkipWS(text, r.i) = Len(text) + 1 THEN r ELSE ParseFail

\* JSON.parse(text): one value, surrounded by optional white space
JSONParse(text) == WholeText(text, ParseValue(text, SkipWS(text, 1)))

-----------------------------------------------------------------------------
(* serializeDockingReport / deserializeDockingReport.                      *)

serializeDockingReport(data) == TextEncode(JSONStringify(data))

Returned(v) == [threw |-> FALSE, value |-> v]
Thrown      == [threw |-> TRUE, value |-> EmptyReport]

\* the constructor applied to what JSON.parse gave, inside the try block
Construct(json) ==
    IF json.ok THEN Returned(DockingReportSchema(json.v)) ELSE Thrown

\* the statements of the try block: JSON.parse, then the constructor
DeserializeTry(text) == Construct(JSONParse(text))

\* catch (e) { return new DockingReportSchema() }
DeserializeCatch(r) == IF r.threw THEN Returned(EmptyReport) ELSE r

\* the function without its catch clause
deserializeNoCatch(data) == DeserializeTry(TextDecode(data))

deserializeDockingReport(data) == DeserializeCatch(DeserializeTry(TextDecode(data)))

-----------------------------------------------------------------------------
(* Inputs of the codec.                                                    *)

\* a, quote, backslash, line feed, e-acute, a high and a low surrogate
StrAlphabet == {97, 34, 92, 10, 233, 55357, 56832}

Strings(alphabet, maxLen) ==
    UNION {[1..k -> alphabet] : k \in 0..maxLen}

T_J1      == <<74, 49>>
T_Aspirin == <<65, 115, 112, 105, 114, 105, 110>>

Num(neg, digs, n) == [neg |-> neg, digs |-> digs, n |-> n]

N_minus742  == Num(TRUE, <<7, 4, 2>>, 1)            \* -7.42
N_1700000000000 == Num(FALSE, <<1, 7>>, 13)         \* 1700000000000
N_minusZero == Num(TRUE, <<>>, 0)                   \* -0

\* finite doubles: -7.42, 0, -0, 100, 0.001, 1.5e-7, 1e21
Scores ==
    {N_minus742, NumZero, N_minusZero, Num(FALSE, <<1>>, 3),
     Num(FALSE, <<1>>, -2), Num(TRUE, <<1, 5>>, -6), Num(FALSE, <<1>>, 22)}

\* whole milliseconds: 1700000000000, 0, 1234
Timestamps == {N_1700000000000, NumZero, Num(FALSE, <<1, 2, 3, 4>>, 4)}

JobIds == Strings(StrAlphabet, MaxStrLen) \cup {T_J1}
MoleculeNames == {T_Aspirin, <<>>, <<92>>, <<34, 55357>>}

MkReport(jobId, moleculeName, score, timestamp) ==
    [jobId |-> JSStr(jobId), moleculeName |-> JSStr(moleculeName),
     score |-> JSNum(score), timestamp |-> JSNum(timestamp)]

ValidReports ==
    {MkReport(j, m, s, ts) : j \in JobIds, m \in MoleculeNames,
                             s \in Scores, ts \in Timestamps}

SampleReport == MkReport(T_J1, T_Aspirin, N_minus742, N_1700000000000)

\* { } [ ] " 0 1 - , : space, and bytes that are ill-formed as UTF-8
RawAlphabet == {123, 125, 91, 93, 34, 48, 49, 45, 44, 58, 32, 195, 169, 255}

RawSamples ==
    {<<110, 117, 108, 108>>, <<116, 114, 117, 101>>, <<102, 97, 108, 115, 101>>,
     <<110, 111, 116, 32, 106, 115, 111, 110>>,
     <<123, 34, 106, 111, 98, 73, 100, 34, 58, 49, 125>>,
     <<34, 104, 101, 108, 108, 111, 34>>,
     <<239, 187, 191, 123, 125>>}

\* serialized records cut short
Truncations ==
    LET full == serializeDockingReport(SampleReport)
    IN  {SubSeq(full, 1, k) : k \in 0..(Len(full) - 1)}

RawInputs == Strings(RawAlphabet, MaxRawLen) \cup RawSamples \cup Truncations

NoResult == [threw |-> FALSE, value |-> EmptyReport]

-----------------------------------------------------------------------------------------------------------------------------------------------------
(* The codec as a state machine.                                           *)

\* serializeDockingReport(reportData)
Encode ==
    /\ cstage = "start"
    /\ wire' = serializeDockingReport(report)
    /\ cstage' = "encoded"
    /\ UNCHANGED <<report, decoded>>
    /\ UNCHANGED codecFrame

\* deserializeDockingReport(dataBuffer)
Decode ==
    /\ cstage \in {"encoded", "received"}
    /\ decoded' = deserializeDockingReport(wire)
    /\ cstage' = IF cstage = "encoded" THEN "roundtrip" ELSE "decoded"
    /\ UNCHANGED <<report, wire>>
    /\ UNCHANGED codecFrame

NextCodec == Encode \/ Decode

-----------------------------------------------------------------------------
(* fetchJobFromChain.                                                      *)

BIOCHAIN_PROGRAM_ID == "MemoSq4gqABAXKb96qnH8TysNcWxMyWCqXgDLGmfcQb"
WalletKey == "wallet-key"

T_notJson == <<110, 111, 116, 32, 106, 115, 111, 110>>      \* not json
T_hello   == <<34, 104, 101, 108, 108, 111, 34>>            \* "hello"

\* instruction data found on chain: a serialized record, a plain-text memo
\* that is not JSON, and a memo that is JSON but no record
Payloads == {serializeDockingReport(SampleReport), T_notJson, T_hello}

\* a compiled instruction: a 0-based index into the account keys, and data
CompiledInstructions == [programIdIndex : 0..MaxKeys, data : Payloads]

Messages ==
    [compiledInstructions : Strings(CompiledInstructions, MaxInstr),
     staticAccountKeys    : Strings({BIOCHAIN_PROGRAM_ID, WalletKey}, MaxKeys)]

NoMessage == [compiledInstructions |-> <<>>, staticAccountKeys |-> <<>>]

\* what getTransaction settles with: a rejection (network error), null,
\* a response without its transaction or message, or a full response
TxResponses ==
    {[settled |-> k, message |-> NoMessage] :
        k \in {"rejected", "null", "noTransaction", "noMessage"}}
    \cup {[settled |-> "tx", message |-> m] : m \in Messages}

NoTx == [settled |-> "none", message |-> NoMessage]

FNull      == [kind |-> "null", value |-> EmptyReport]
FRecord(v) == [kind |-> "record", value |-> v]
FRaised    == [kind |-> "raised", value |-> EmptyReport]
FNone      == [kind |-> "none", value |-> EmptyReport]

\* accountKeys[ix.programIdIndex] is undefined: toString() on it throws
KeyMissing(m, i) ==
    m.compiledInstructions[i].programIdIndex >= Len(m.staticAccountKeys)

\* programId.toString() === BIOCHAIN_PROGRAM_ID.toString()
IsMemoAt(m, i) ==
    /\ ~KeyMissing(m, i)
    /\ m.staticAccountKeys[m.compiledInstructions[i].programIdIndex + 1]
           = BIOCHAIN_PROGRAM_ID

\* a loop without its break: the last instruction that matches wins
LoopStopNoBreak(m) ==
    LET stops == {i \in 1..Len(m.compiledInstructions) :
                      KeyMissing(m, i) \/ IsMemoAt(m, i)}
    IN  IF stops = {} THEN 0
        ELSE CHOOSE i \in stops : \A j \in stops : i >= j

\* the for loop: the position of the instruction at which it stops, either
\* by break (a memo instruction) or by a TypeError (no such account key);
\* 0 when it runs to the end
LoopStop(m) ==
    LET stops == {i \in 1..Len(m.compiledInstructions) :
                      KeyMissing(m, i) \/ IsMemoAt(m, i)}
    IN  IF stops = {} THEN 0
        ELSE CHOOSE i \in stops : \A j \in stops : i <= j

\* return decoded, or the throw of the decoder if it threw
Decoded(d) == IF d.threw THEN FRaised ELSE FRecord(d.value)

\* the statements after the loop, which stopped at instruction i
AfterLoop(m, i) ==
    IF i = 0 THEN FRaised
    ELSE IF KeyMissing(m, i) THEN FRaised
    ELSE Decoded(deserializeDockingReport(m.compiledInstructions[i].data))

\* the statements of the try block after the await: FRaised stands for a
\* throw inside the block
FetchTry(resp) ==
    IF resp.settled # "tx" THEN FRaised
    ELSE AfterLoop(resp.message, LoopStop(resp.message))

\* catch (err) { return null }
FetchCatch(r) == IF r.kind = "raised" THEN FNull ELSE r

\* the function without its catch clause
FetchNoCatch(resp) == FetchTry(resp)

\* try { ... } catch (err) { return null }
FetchOutcome(resp) == FetchCatch(FetchTry(resp))

\* the "Live Ledger Data" panel of the audit tab
LedgerPanel(isLoadingChainData, onChainData) ==
    IF isLoadingChainData THEN "Fetching blocks..."
    ELSE IF onChainData.kind = "record" THEN "record"
    ELSE "Could not verify on-chain data."

\* fetchJobFromChain(signature) up to its await
FetchCall ==
    /\ fpc = "idle"
    /\ fpc' = "getTransaction"
    /\ UNCHANGED <<ftx, fresult>>
    /\ UNCHANGED fetchFrame

\* getTransaction settles and the rest of the function runs
FetchSettle ==
    /\ fpc = "getTransaction"
    /\ \E resp \in TxResponses :
          /\ ftx' = resp
          /\ fresult' = FetchOutcome(resp)
    /\ fpc' = "done"
    /\ UNCHANGED fetchFrame

NextFetch == FetchCall \/ FetchSettle

-----------------------------------------------------------------------------------------------------------------------------------------------------
(* The wallet provider.                                                    *)

\* window.phantom: no such property, an object without solana, or an object
\* whose solana is the Phantom provider.  window.solana: no such property,
\* null, another wallet's provider (isPhantom not set), or the Phantom
\* provider.
PhantomGlobals == {"absent", "noSolana", "phantom"}
SolanaGlobals  == {"absent", "null", "other", "phantom"}
Windows == [phantom : PhantomGlobals, solana : SolanaGlobals]

\* getProvider(): [threw, found].  Reading isPhantom of a null
\* window.solana is a TypeError.
getProvider(w) ==
    IF w.phantom = "phantom" THEN [threw |-> FALSE, found |-> TRUE]
    ELSE IF w.solana = "absent" THEN [threw |-> FALSE, found |-> FALSE]
    ELSE IF w.solana = "null" THEN [threw |-> TRUE, found |-> FALSE]
    ELSE [threw |-> FALSE, found |-> w.solana = "phantom"]

Accounts == {"keyA", "keyB"}
PublicKeys == Accounts \cup {"null"}

\* the user disconnects the wallet: provider.publicKey becomes null
WalletDisconnect ==
    /\ vpc \in {"idle", "blockhash", "signing", "confirming"}
    /\ walletKey # "null"
    /\ walletKey' = "null"
    /\ UNCHANGED <<win, verifyVars>>
    /\ UNCHANGED verifyFrame

\* the user connects or switches to an account
WalletSwitch ==
    /\ vpc \in {"idle", "blockhash", "signing", "confirming"}
    /\ \E k \in Accounts : k # walletKey /\ walletKey' = k
    /\ UNCHANGED <<win, verifyVars>>
    /\ UNCHANGED verifyFrame

-----------------------------------------------------------------------------
(* verifyJobOnChain.                                                       *)

ERR_NOT_CONNECTED == "Wallet not connected"
ERR_TX_FAILED ==
    "Transaction failed. Please ensure your Phantom wallet is set to 'devnet' and you have SOL."

\* what signAndSendTransaction rejects with: the user declined to sign, the
\* RPC node was unreachable, the balance does not cover the fee
SubmitErrors == {"User rejected the request", "NetworkError", "Insufficient funds"}

VNone          == [kind |-> "none", error |-> "none", signature |-> "none"]
VThrew(e)      == [kind |-> "threw", error |-> e, signature |-> "none"]
VReturned(sig) == [kind |-> "returned", error |-> "none", signature |-> sig]

NoTransaction == [recentBlockhash |-> "none", feePayer |-> "null", instructions |-> <<>>]

\* new Transaction(), recentBlockhash, feePayer, and transaction.add of one
\* TransactionInstruction
BuildTransaction(blockhash, publicKey, data) ==
    [recentBlockhash |-> blockhash,
     feePayer        |-> publicKey,
     instructions    |->
        <<[keys      |-> <<[pubkey |-> publicKey, isSigner |-> TRUE, isWritable |-> TRUE]>>,
           programId |-> BIOCHAIN_PROGRAM_ID,
           data      |-> data]>>]

VerifyArgs ==
    [jobId : {T_J1, <<34>>}, moleculeName : {T_Aspirin}, score : {N_minus742, NumZero},
     now : {N_1700000000000, Num(FALSE, <<1, 2, 3, 4>>, 4)}]

NoArgs == [jobId |-> <<>>, moleculeName |-> <<>>, score |-> NumZero, now |-> NumZero]

Signatures == {"sig1", "sig2"}

\* verifyJobOnChain(jobId, moleculeName, score) up to its first await
VerifyCall ==
    /\ vpc = "idle"
    /\ LET p == getProvider(win) IN
       IF p.threw
       THEN /\ voutcome' = VThrew("TypeError")
            /\ vcause' = "TypeError"
            /\ vpc' = "done"
            /\ UNCHANGED <<vdata, vtrace>>
       ELSE IF ~p.found \/ walletKey = "null"
       THEN /\ voutcome' = VThrew(ERR_NOT_CONNECTED)
            /\ vpc' = "done"
            /\ UNCHANGED <<vdata, vtrace, vcause>>
       ELSE /\ vdata' = serializeDockingReport(
                            MkReport(vargs.jobId, vargs.moleculeName, vargs.score, vargs.now))
            /\ vtrace' = <<"getLatestBlockhash">>
            /\ vpc' = "blockhash"
            /\ UNCHANGED <<voutcome, vcause>>
    /\ UNCHANGED <<vargs, vtx, vsig>>
    /\ UNCHANGED walletVars
    /\ UNCHANGED verifyFrame

\* what reaches the caller when getLatestBlockhash rejects with error e:
\* the await is outside the try block
OnBlockhashRejected(e) == VThrew(e)

\* what reaches the caller when signAndSendTransaction or
\* confirmTransaction rejects with error e: the catch clause
OnSubmitRejected(e) == VThrew(ERR_TX_FAILED)

\* getLatestBlockhash settles; on success the transaction is built from
\* the provider's current publicKey and signAndSendTransaction is requested
VerifyBlockhashSettle ==
    /\ vpc = "blockhash"
    /\ \/ /\ vtrace' = vtrace \o <<"blockhash rejected">>
          /\ vcause' = "NetworkError"
          /\ voutcome' = OnBlockhashRejected("NetworkError")
          /\ vpc' = "done"
          /\ UNCHANGED vtx
       \/ /\ vtx' = BuildTransaction("blockhash", walletKey, vdata)
          /\ vtrace' = vtrace \o <<"blockhash", "signAndSendTransaction">>
          /\ vpc' = "signing"
          /\ UNCHANGED <<voutcome, vcause>>
    /\ UNCHANGED <<vargs, vdata, vsig>>
    /\ UNCHANGED walletVars
    /\ UNCHANGED verifyFrame

\* a rejected submission is requested again
VerifySignSettleRetry ==
    /\ vpc = "signing"
    /\ \/ /\ \E e \in SubmitErrors : vcause' = e
          /\ vtrace' = vtrace \o <<"sign rejected", "signAndSendTransaction">>
          /\ UNCHANGED <<vpc, vsig, voutcome>>
       \/ /\ vtx.feePayer # "null"
          /\ \E sig \in Signatures : vsig' = sig
          /\ vtrace' = vtrace \o <<"signed", "confirmTransaction">>
          /\ vpc' = "confirming"
          /\ UNCHANGED <<voutcome, vcause>>
    /\ UNCHANGED <<vargs, vdata, vtx>>
    /\ UNCHANGED walletVars
    /\ UNCHANGED verifyFrame

\* the signature is returned while confirmTransaction is still pending
VerifySignSettleNoAwait ==
    /\ vpc = "signing"
    /\ \/ /\ \E e \in SubmitErrors :
                /\ vcause' = e
                /\ voutcome' = VThrew(ERR_TX_FAILED)
          /\ vtrace' = vtrace \o <<"sign rejected">>
          /\ UNCHANGED vsig
       \/ /\ vtx.feePayer # "null"
          /\ \E sig \in Signatures : vsig' = sig /\ voutcome' = VReturned(sig)
          /\ vtrace' = vtrace \o <<"signed", "confirmTransaction">>
          /\ UNCHANGED vcause
    /\ vpc' = "done"
    /\ UNCHANGED <<vargs, vdata, vtx>>
    /\ UNCHANGED walletVars
    /\ UNCHANGED verifyFrame

\* signAndSendTransaction settles; on success confirmTransaction is
\* requested.  A transaction without a fee payer cannot be signed.
VerifySignSettle ==
    /\ vpc = "signing"
    /\ \/ /\ \E e \in SubmitErrors :
                /\ vcause' = e
                /\ voutcome' = OnSubmitRejected(e)
          /\ vtrace' = vtrace \o <<"sign rejected">>
          /\ vpc' = "done"
          /\ UNCHANGED vsig
       \/ /\ vtx.feePayer # "null"
          /\ \E sig \in Signatures : vsig' = sig
          /\ vtrace' = vtrace \o <<"signed", "confirmTransaction">>
          /\ vpc' = "confirming"
          /\ UNCHANGED <<voutcome, vcause>>
    /\ UNCHANGED <<vargs, vdata, vtx>>
    /\ UNCHANGED walletVars
    /\ UNCHANGED verifyFrame

\* confirmTransaction settles
VerifyConfirmSettle ==
    /\ vpc = "confirming"
    /\ \/ /\ vtrace' = vtrace \o <<"confirm rejected">>
          /\ vcause' = "NetworkError"
          /\ voutcome' = OnSubmitRejected("NetworkError")
       \/ /\ vtrace' = vtrace \o <<"confirmed">>
          /\ voutcome' = VReturned(vsig)
          /\ UNCHANGED vcause
    /\ vpc' = "done"
    /\ UNCHANGED <<vargs, vdata, vtx, vsig>>
    /\ UNCHANGED walletVars
    /\ UNCHANGED verifyFrame

NextVerify ==
    \/ VerifyCall
    \/ VerifyBlockhashSettle
    \/ VerifySignSettle
    \/ VerifyConfirmSettle
    \/ WalletDisconnect
    \/ WalletSwitch

-----------------------------------------------------------------------------------------------------------------------------------------------------
(* connectWallet.                                                          *)

MaxRetries   == 10       \* for (let i = 0; i < 10; i++)
RetryDelayMs == 100      \* setTimeout(resolve, 100)

KNone == [kind |-> "none", value |-> "null", branch |-> "none",
          prompted |-> FALSE, redirected |-> FALSE, alerted |-> FALSE]

\* provider.connect() is requested
KFound == [KNone EXCEPT !.branch = "found"]

KThrew == [KNone EXCEPT !.kind = "threw"]

\* a loop that goes round once more
LoopContinuesOffByOne(i) == i <= MaxRetries

\* the loop condition
LoopContinues(i) == i < MaxRetries

\* the alert on every user agent
NoWalletOutcomeAlertOnly(isMobile, accepted) ==
    [kind |-> "returned", value |-> "null", branch |-> "desktop",
     prompted |-> FALSE, redirected |-> FALSE, alerted |-> TRUE]

\* if (!provider) { ... return null }: the deep-link prompt on a mobile user
\* agent, and the redirect when the user accepts it; the alert otherwise
NoWalletOutcome(isMobile, accepted) ==
    IF isMobile
    THEN [kind |-> "returned", value |-> "null", branch |-> "mobile",
          prompted |-> TRUE, redirected |-> accepted, alerted |-> FALSE]
    ELSE [kind |-> "returned", value |-> "null", branch |-> "desktop",
          prompted |-> FALSE, redirected |-> FALSE, alerted |-> TRUE]

\* connectWallet() up to its first await: the initial probe
ConnectCall ==
    /\ kpc = "idle"
    /\ LET p == getProvider(win) IN
       IF p.threw
       THEN /\ koutcome' = KThrew
            /\ kpc' = "done"
            /\ UNCHANGED <<ki, kabsent>>
       ELSE IF p.found
       THEN /\ koutcome' = KFound
            /\ kpc' = "connecting"
            /\ UNCHANGED <<ki, kabsent>>
       ELSE /\ kabsent' = kabsent + 1
            /\ ki' = 0
            /\ IF LoopContinues(0)
               THEN kpc' = "sleep" /\ UNCHANGED koutcome
               ELSE /\ kpc' = "done"
                    /\ \E accepted \in BOOLEAN :
                          koutcome' = NoWalletOutcome(kmobile, accepted)
    /\ UNCHANGED <<kmobile, kwaits, kelapsed>>
    /\ UNCHANGED walletVars
    /\ UNCHANGED connectFrame

\* the timer of one loop iteration fires: probe again, then break, go round
\* again, or leave the loop and conclude
ConnectRetry ==
    /\ kpc = "sleep"
    /\ kwaits' = kwaits + 1
    /\ kelapsed' = kelapsed + RetryDelayMs
    /\ LET p == getProvider(win) IN
       IF p.threw
       THEN /\ koutcome' = KThrew
            /\ kpc' = "done"
            /\ UNCHANGED <<ki, kabsent>>
       ELSE IF p.found
       THEN /\ koutcome' = KFound
            /\ kpc' = "connecting"
            /\ UNCHANGED <<ki, kabsent>>
       ELSE /\ kabsent' = kabsent + 1
            /\ ki' = ki + 1
            /\ IF LoopContinues(ki + 1)
               THEN kpc' = "sleep" /\ UNCHANGED koutcome
               ELSE /\ kpc' = "done"
                    /\ \E accepted \in BOOLEAN :
                          koutcome' = NoWalletOutcome(kmobile, accepted)
    /\ UNCHANGED kmobile
    /\ UNCHANGED walletVars
    /\ UNCHANGED connectFrame

\* provider.connect() settles: the account's key, or null when the user
\* rejects the request
ConnectSettle ==
    /\ kpc = "connecting"
    /\ \/ \E k \in Accounts :
             /\ walletKey' = k
             /\ koutcome' = [koutcome EXCEPT !.kind = "returned", !.value = k]
       \/ /\ koutcome' = [koutcome EXCEPT !.kind = "returned", !.value = "null"]
          /\ UNCHANGED walletKey
    /\ kpc' = "done"
    /\ UNCHANGED <<win, kmobile, ki, kabsent, kwaits, kelapsed>>
    /\ UNCHANGED connectFrame

\* checkWalletConnection() has returned value, or is waiting when kind is
\* "none"
KCheck(kind, value) == [KNone EXCEPT !.kind = kind, !.value = value, !.branch = "check"]

\* checkWalletConnection() up to its await: the probe, then the key the
\* provider already holds, or provider.connect({ onlyIfTrusted: true })
CheckCall ==
    /\ kpc = "idle"
    /\ LET p == getProvider(win) IN
       IF p.threw
       THEN koutcome' = KCheck("threw", "null") /\ kpc' = "done"
       ELSE IF p.found /\ walletKey # "null"
       THEN koutcome' = KCheck("returned", walletKey) /\ kpc' = "done"
       ELSE IF p.found
       THEN koutcome' = KCheck("none", "null") /\ kpc' = "trusting"
       ELSE koutcome' = KCheck("returned", "null") /\ kpc' = "done"
    /\ UNCHANGED <<kmobile, ki, kabsent, kwaits, kelapsed>>
    /\ UNCHANGED walletVars
    /\ UNCHANGED connectFrame

\* provider.connect({ onlyIfTrusted: true }) settles: the key of the trusted
\* account, or null when the site is not trusted
CheckSettle ==
    /\ kpc = "trusting"
    /\ \/ \E k \in Accounts :
             /\ walletKey' = k
             /\ koutcome' = KCheck("returned", k)
       \/ /\ koutcome' = KCheck("returned", "null")
          /\ UNCHANGED walletKey
    /\ kpc' = "done"
    /\ UNCHANGED <<win, kmobile, ki, kabsent, kwaits, kelapsed>>
    /\ UNCHANGED connectFrame

\* the wallet extension injects (or a page script changes) the globals
GlobalsChange ==
    /\ kpc \in {"idle", "sleep"}
    /\ \E w \in Windows : w # win /\ win' = w
    /\ UNCHANGED <<walletKey, connectVars>>
    /\ UNCHANGED connectFrame

NextConnect ==
    \/ ConnectCall
    \/ ConnectRetry
    \/ ConnectSettle
    \/ CheckCall
    \/ CheckSettle
    \/ GlobalsChange

-----------------------------------------------------------------------------
(* generateReportFromStats (services/geminiService.ts): the summary text.  *)

\* the literal text of the program, as code units:
\*   prefix       [Simulated Analysis]\n
\*   quotaPrefix  [Simulated Analysis - API Quota Exceeded]\n
\*   name         \nAnalysis for 
\*   score        :\nThe docking score of 
\*   efficiency    kcal/mol indicates a significant binding interaction with t...
\*   weight        suggests the molecule utilizes its mass effectively to achi...
\*   donors        Da, the compound maintains drug-like characteristics suitab...
\*   acceptors    /
\*   end          ) supports potential specific polar interactions within the ...
\*   noAnalysis   No analysis generated.
\*   error        Error generating AI report. Please check API configuration o...
Literal(k) ==
    CASE k = "prefix" ->
        <<91, 83, 105, 109, 117, 108, 97, 116, 101, 100, 32, 65, 110, 97, 108, 121, 115, 105, 115, 93, 10>>
      [] k = "quotaPrefix" ->
        <<91, 83, 105, 109, 117, 108, 97, 116, 101, 100, 32, 65, 110, 97, 108, 121, 115, 105, 115, 32, 45, 32,
          65, 80, 73, 32, 81, 117, 111, 116, 97, 32, 69, 120, 99, 101, 101, 100, 101, 100, 93, 10>>
      [] k = "name" ->
        <<10, 65, 110, 97, 108, 121, 115, 105, 115, 32, 102, 111, 114, 32>>
      [] k = "score" ->
        <<58, 10, 84, 104, 101, 32, 100, 111, 99, 107, 105, 110, 103, 32, 115, 99, 111, 114, 101, 32, 111, 102,
          32>>
      [] k = "efficiency" ->
        <<32, 107, 99, 97, 108, 47, 109, 111, 108, 32, 105, 110, 100, 105, 99, 97, 116, 101, 115, 32, 97, 32,
          115, 105, 103, 110, 105, 102, 105, 99, 97, 110, 116, 32, 98, 105, 110, 100, 105, 110, 103, 32, 105, 110,
          116, 101, 114, 97, 99, 116, 105, 111, 110, 32, 119, 105, 116, 104, 32, 116, 104, 101, 32, 116, 97, 114,
          103, 101, 116, 32, 114, 101, 99, 101, 112, 116, 111, 114, 46, 10, 65, 32, 98, 105, 110, 100, 105, 110,
          103, 32, 101, 102, 102, 105, 99, 105, 101, 110, 99, 121, 32, 111, 102, 32>>
      [] k = "weight" ->
        <<32, 115, 117, 103, 103, 101, 115, 116, 115, 32, 116, 104, 101, 32, 109, 111, 108, 101, 99, 117, 108, 101,
          32, 117, 116, 105, 108, 105, 122, 101, 115, 32, 105, 116, 115, 32, 109, 97, 115, 115, 32, 101, 102, 102,
          101, 99, 116, 105, 118, 101, 108, 121, 32, 116, 111, 32, 97, 99, 104, 105, 101, 118, 101, 32, 116, 104,
          105, 115, 32, 97, 102, 102, 105, 110, 105, 116, 121, 46, 10, 87, 105, 116, 104, 32, 97, 32, 109, 111,
          108, 101, 99, 117, 108, 97, 114, 32, 119, 101, 105, 103, 104, 116, 32, 111, 102, 32>>
      [] k = "donors" ->
        <<32, 68, 97, 44, 32, 116, 104, 101, 32, 99, 111, 109, 112, 111, 117, 110, 100, 32, 109, 97, 105, 110,
          116, 97, 105, 110, 115, 32, 100, 114, 117, 103, 45, 108, 105, 107, 101, 32, 99, 104, 97, 114, 97, 99,
          116, 101, 114, 105, 115, 116, 105, 99, 115, 32, 115, 117, 105, 116, 97, 98, 108, 101, 32, 102, 111, 114,
          32, 111, 114, 97, 108, 32, 98, 105, 111, 97, 118, 97, 105, 108, 97, 98, 105, 108, 105, 116, 121, 46,
          10, 84, 104, 101, 32, 104, 121, 100, 114, 111, 103, 101, 110, 32, 98, 111, 110, 100, 32, 100, 111, 110,
          111, 114, 47, 97, 99, 99, 101, 112, 116, 111, 114, 32, 112, 114, 111, 102, 105, 108, 101, 32, 40>>
      [] k = "acceptors" ->
        <<47>>
      [] k = "end" ->
        <<41, 32, 115, 117, 112, 112, 111, 114, 116, 115, 32, 112, 111, 116, 101, 110, 116, 105, 97, 108, 32, 115,
          112, 101, 99, 105, 102, 105, 99, 32, 112, 111, 108, 97, 114, 32, 105, 110, 116, 101, 114, 97, 99, 116,
          105, 111, 110, 115, 32, 119, 105, 116, 104, 105, 110, 32, 116, 104, 101, 32, 97, 99, 116, 105, 118, 101,
          32, 115, 105, 116, 101, 46>>
      [] k = "noAnalysis" ->
        <<78, 111, 32, 97, 110, 97, 108, 121, 115, 105, 115, 32, 103, 101, 110, 101, 114, 97, 116, 101, 100, 46>>
      [] k = "error" ->
        <<69, 114, 114, 111, 114, 32, 103, 101, 110, 101, 114, 97, 116, 105, 110, 103, 32, 65, 73, 32, 114, 101,
          112, 111, 114, 116, 46, 32, 80, 108, 101, 97, 115, 101, 32, 99, 104, 101, 99, 107, 32, 65, 80, 73,
          32, 99, 111, 110, 102, 105, 103, 117, 114, 97, 116, 105, 111, 110, 32, 111, 114, 32, 113, 117, 111, 116,
          97, 46>>

MaxClock == 3000          \* the clock is watched this long, in ms

FallbackDelayMs == 1500   \* setTimeout(..., 1500)

GNone == [kind |-> "none", text |-> <<>>]
GReturned(text) == [kind |-> "returned", text |-> text]
GThrew == [kind |-> "threw", text |-> <<>>]

\* getFallbackReport(moleculeName, stats, isQuotaError): the template literal,
\* each ${...} the ToString of the value
getFallbackReport(moleculeName, stats, isQuotaError) ==
    (IF isQuotaError THEN Literal("quotaPrefix") ELSE Literal("prefix"))
        \o Literal("name") \o moleculeName
        \o Literal("score") \o NumberToString(stats.dockingScore)
        \o Literal("efficiency") \o NumberToString(stats.bindingEfficiency)
        \o Literal("weight") \o NumberToString(stats.molecularWeight)
        \o Literal("donors") \o NumberToString(stats.hBondDonors)
        \o Literal("acceptors") \o NumberToString(stats.hBondAcceptors)
        \o Literal("end")

\* values a rejected generateContent can throw: null or undefined, or a value
\* with a status (0: none), a message (absent, a string with or without
\* '429', or a truthy value that is not a string) and a toString (absent, or
\* giving a text with or without 'Quota exceeded')
Errors ==
    [nullish : BOOLEAN, status : {0, 429, 500},
     message : {"absent", "has429", "plain", "nonstring"},
     text : {"absent", "quota", "plain"}]
\* nothing was thrown
NoError == [nullish |-> FALSE, status |-> -1, message |-> "absent", text |-> "absent"]

\* a catch clause that tells no quota error apart
CatchOutcomeNoQuota(e, args) ==
    IF e.nullish THEN GThrew
    ELSE GReturned(Literal("error"))

\* catch (error: any) { if (error.status === 429 || (error.message &&
\* error.message.includes('429')) || (error.toString &&
\* error.toString().includes('Quota exceeded'))) ... }
\* Reading a property of null or undefined, and calling includes on a value
\* that has none, throw a TypeError out of the catch clause.
CatchOutcome(e, args) ==
    IF e.nullish THEN GThrew
    ELSE IF e.status = 429
    THEN GReturned(getFallbackReport(args.moleculeName, args.stats, TRUE))
    ELSE IF e.message = "nonstring" THEN GThrew
    ELSE IF e.message = "has429"
    THEN GReturned(getFallbackReport(args.moleculeName, args.stats, TRUE))
    ELSE IF e.text = "quota"
    THEN GReturned(getFallbackReport(args.moleculeName, args.stats, TRUE))
    ELSE GReturned(Literal("error"))

\* return response.text || "No analysis generated."
ResponseOutcome(text) ==
    IF text = <<>> THEN GReturned(Literal("noAnalysis")) ELSE GReturned(text)

\* response.text: undefined and "" are both falsy, kept as the empty text
ResponseTexts == {<<>>, <<79, 75>>}

StatsInputs ==
    [dockingScore : {N_minus742, N_minusZero},
     bindingEfficiency : {Num(FALSE, <<3, 5>>, 0)},
     molecularWeight : {Num(FALSE, <<1, 8, 0, 1, 6>>, 3), Num(FALSE, <<1>>, 22)},
     hBondDonors : {NumZero, Num(FALSE, <<1>>, 1)},
     hBondAcceptors : {Num(FALSE, <<4>>, 1)}]
GenArgs == [moleculeName : MoleculeNames, stats : StatsInputs]
NoGenArgs == [moleculeName |-> <<>>,
              stats |-> [dockingScore |-> NumZero, bindingEfficiency |-> NumZero,
                         molecularWeight |-> NumZero, hBondDonors |-> NumZero,
                         hBondAcceptors |-> NumZero]]
ClockSteps == {250, 1000, 1500}

\* a timer callback that runs without waiting
TimerDueAtOnce(clock) == TRUE

\* the callback of setTimeout(..., 1500) can run once 1500 ms have passed
TimerDue(clock) == clock >= FallbackDelayMs

\* generateReportFromStats(moleculeName, stats) up to its await: without a
\* credential the timer is set, with one generateContent is requested
GenCall ==
    /\ gpc = "idle"
    /\ gpc' = IF gkey THEN "generating" ELSE "timer"
    /\ UNCHANGED <<gkey, gargs, gclock, gerr, goutcome>>
    /\ UNCHANGED genFrame

\* time passes while the call is pending
GenTick ==
    /\ gpc \in {"timer", "generating"}
    /\ \E d \in ClockSteps :
          /\ gclock + d <= MaxClock
          /\ gclock' = gclock + d
    /\ UNCHANGED <<gpc, gkey, gargs, gerr, goutcome>>
    /\ UNCHANGED genFrame

\* the timer callback: resolve(getFallbackReport(moleculeName, stats))
GenTimer ==
    /\ gpc = "timer"
    /\ TimerDue(gclock)
    /\ goutcome' = GReturned(getFallbackReport(gargs.moleculeName, gargs.stats, FALSE))
    /\ gpc' = "done"
    /\ UNCHANGED <<gkey, gargs, gclock, gerr>>
    /\ UNCHANGED genFrame

\* generateContent settles: the response text, or the catch clause
GenSettle ==
    /\ gpc = "generating"
    /\ \/ \E text \in ResponseTexts :
             /\ goutcome' = ResponseOutcome(text)
             /\ UNCHANGED gerr
       \/ \E e \in Errors :
             /\ gerr' = e
             /\ goutcome' = CatchOutcome(e, gargs)
    /\ gpc' = "done"
    /\ UNCHANGED <<gkey, gargs, gclock>>
    /\ UNCHANGED genFrame

NextGen == GenCall \/ GenTick \/ GenTimer \/ GenSettle

-----------------------------------------------------------------------------
(* The Report view (appended to services/geminiService.ts): its state, its *)
(* two effects, and the handlers of its controls.                          *)

MaxPending == 2     \* most promises of one kind followed at a time
MaxClicks  == 1     \* most verify requests followed

T_J2 == <<74, 50>>      \* J2

\* the jobs shown: an unverified job, the same job once verified, and a job
\* without stats
Jobs ==
    {[id |-> T_J1, moleculeName |-> T_Aspirin, txHash |-> "none",
      status |-> "COMPLETED", hasStats |-> TRUE, score |-> N_minus742],
     [id |-> T_J1, moleculeName |-> T_Aspirin, txHash |-> "sig1",
      status |-> "VERIFIED", hasStats |-> TRUE, score |-> N_minus742],
     [id |-> T_J2, moleculeName |-> <<>>, txHash |-> "sig2",
      status |-> "VERIFIED", hasStats |-> FALSE, score |-> NumZero]}

NoJob == [id |-> <<>>, moleculeName |-> <<>>, txHash |-> "none",
          status |-> "none", hasStats |-> FALSE, score |-> NumZero]

NoFlags == [mounted |-> FALSE, generating |-> FALSE, loading |-> FALSE,
            exporting |-> FALSE]
\* latest: the fetch started last is still in flight; shown: whether
\* onChainData came from the fetch started last ("latest"), from an earlier
\* one ("stale"), or from none
NonePending == [gen |-> 0, fetch |-> 0, export |-> 0, latest |-> FALSE,
                shown |-> "none"]

\* what fetchJobFromChain can resolve to: null, the record that was
\* written, a record written for another job with a score 0.0005 away, and
\* the record decoded from a memo that is JSON but no record
OnChainResults ==
    {FNull, FRecord(SampleReport),
     FRecord(MkReport(T_J2, <<>>, Num(TRUE, <<7, 4, 2, 0, 5>>, 1), NumZero)),
     FRecord(DockingReportSchema(JSStr(<<104, 105>>)))}

\* if (!aiReport && job.stats): the summary effect starts a generation
SummaryEffectRuns(aiReport, job) == aiReport = <<>> /\ job.hasStats

\* if (activeTab === 'audit' && job.txHash): the audit effect starts a fetch
AuditEffectRuns(activeTab, job) == activeTab = "audit" /\ job.txHash # "none"

\* the state after the summary effect ran (or not) for aiReport and job
AfterSummaryEffect(flags, pending, aiReport, job) ==
    IF SummaryEffectRuns(aiReport, job)
    THEN [f |-> [flags EXCEPT !.generating = TRUE],
          p |-> [pending EXCEPT !.gen = @ + 1]]
    ELSE [f |-> flags, p |-> pending]

\* the state after the audit effect ran (or not) for activeTab and job
AfterAuditEffect(fp, activeTab, job) ==
    IF AuditEffectRuns(activeTab, job)
    THEN [f |-> [fp.f EXCEPT !.loading = TRUE],
          p |-> [fp.p EXCEPT !.fetch = @ + 1, !.latest = TRUE,
                             !.shown = IF @ = "none" THEN "none" ELSE "stale"]]
    ELSE fp

\* no counter is at its bound
Followed == rpending.gen < MaxPending /\ rpending.fetch < MaxPending

\* the first render commits: both effects run
Mount ==
    /\ rtab # "off"
    /\ ~rflags.mounted
    /\ LET fp == AfterAuditEffect(
                    AfterSummaryEffect([rflags EXCEPT !.mounted = TRUE],
                                       rpending, raiReport, rjob),
                    rtab, rjob)
       IN  rflags' = fp.f /\ rpending' = fp.p
    /\ UNCHANGED <<rtab, rjob, rconnected, raiReport, ronChain, rlog>>
    /\ UNCHANGED reportFrame

\* a tab button: setActiveTab(tab); activeTab is a dependency of the audit
\* effect only
SwitchTab ==
    /\ rflags.mounted
    /\ Followed
    /\ \E tab \in {"summary", "details", "audit"} :
          /\ tab # rtab
          /\ rtab' = tab
          /\ LET fp == AfterAuditEffect([f |-> rflags, p |-> rpending], tab, rjob)
             IN  rflags' = fp.f /\ rpending' = fp.p
    /\ UNCHANGED <<rjob, rconnected, raiReport, ronChain, rlog>>
    /\ UNCHANGED reportFrame

\* the parent renders the view with a new job object: the summary effect
\* depends on job, the audit effect on job.txHash
JobChange ==
    /\ rflags.mounted
    /\ Followed
    /\ \E job \in Jobs :
          /\ rjob' = job
          /\ LET fp == AfterSummaryEffect(rflags, rpending, raiReport, job)
             IN  IF job.txHash # rjob.txHash
                 THEN /\ rflags' = AfterAuditEffect(fp, rtab, job).f
                      /\ rpending' = AfterAuditEffect(fp, rtab, job).p
                 ELSE rflags' = fp.f /\ rpending' = fp.p
    /\ UNCHANGED <<rtab, rconnected, raiReport, ronChain, rlog>>
    /\ UNCHANGED reportFrame

\* a fetchJobFromChain promise resolves: setOnChainData(data), then
\* setIsLoadingChainData(false)
ChainDataArrives ==
    /\ rpending.fetch > 0
    /\ \E data \in OnChainResults : ronChain' = data
    /\ rflags' = [rflags EXCEPT !.loading = FALSE]
    /\ \/ /\ rpending.latest
          /\ rpending' = [rpending EXCEPT !.fetch = @ - 1, !.latest = FALSE,
                                          !.shown = "latest"]
       \/ /\ rpending.fetch > (IF rpending.latest THEN 1 ELSE 0)
          /\ rpending' = [rpending EXCEPT !.fetch = @ - 1, !.shown = "stale"]
    /\ UNCHANGED <<rtab, rjob, rconnected, raiReport, rlog>>
    /\ UNCHANGED reportFrame

\* generateReportFromStats(job.moleculeName, job.stats): the arguments
JobArgs(job) ==
    [moleculeName |-> job.moleculeName,
     stats |-> [dockingScore |-> job.score,
                bindingEfficiency |-> Num(FALSE, <<3, 5>>, 0),
                molecularWeight |-> Num(FALSE, <<1, 8, 0, 1, 6>>, 3),
                hBondDonors |-> Num(FALSE, <<1>>, 1),
                hBondAcceptors |-> Num(FALSE, <<4>>, 1)]]

\* the ways generateReportFromStats ends: no credential, a response with
\* or without text, a quota error, another failure, a thrown null
GenPaths == {"noCredential", "emptyText", "text", "quota", "failure", "nullThrown"}

\* what the call settles with on each of them
PathOutcome(path, args) ==
    CASE path = "noCredential" ->
             GReturned(getFallbackReport(args.moleculeName, args.stats, FALSE))
      [] path = "emptyText" -> ResponseOutcome(<<>>)
      [] path = "text" -> ResponseOutcome(<<79, 75>>)
      [] path = "quota" ->
             CatchOutcome([nullish |-> FALSE, status |-> 429,
                           message |-> "plain", text |-> "plain"], args)
      [] path = "failure" ->
             CatchOutcome([nullish |-> FALSE, status |-> 500,
                           message |-> "plain", text |-> "plain"], args)
      [] path = "nullThrown" ->
             CatchOutcome([nullish |-> TRUE, status |-> 0,
                           message |-> "absent", text |-> "absent"], args)

\* .then(text => setAiReport(text)).finally(() => setIsGenerating(false))
AfterSettled(flags, aiReport, outcome) ==
    IF outcome.kind = "returned"
    THEN [f |-> [flags EXCEPT !.generating = FALSE], ai |-> outcome.text]
    ELSE [f |-> [flags EXCEPT !.generating = FALSE], ai |-> aiReport]

\* a generateReportFromStats promise settles, on any path and for any job
\* with stats the view has shown
SummaryArrives ==
    /\ rpending.gen > 0
    /\ \E path \in GenPaths, args \in {JobArgs(job) : job \in {j \in Jobs : j.hasStats}} :
          /\ raiReport' = AfterSettled(rflags, raiReport, PathOutcome(path, args)).ai
          /\ rflags' = AfterSettled(rflags, raiReport, PathOutcome(path, args)).f
    /\ rpending' = [rpending EXCEPT !.gen = @ - 1]
    /\ UNCHANGED <<rtab, rjob, rconnected, ronChain, rlog>>
    /\ UNCHANGED reportFrame

\* handleExportPDF: if (isExporting) return; setIsExporting(true)
ExportClick ==
    /\ rflags.mounted
    /\ ~rflags.exporting
    /\ rflags' = [rflags EXCEPT !.exporting = TRUE]
    /\ rpending' = [rpending EXCEPT !.export = @ + 1]
    /\ UNCHANGED <<rtab, rjob, rconnected, raiReport, ronChain, rlog>>
    /\ UNCHANGED reportFrame

\* handleExportPDF ends: finally { setIsExporting(false) }
ExportEnds ==
    /\ rpending.export > 0
    /\ rflags' = [rflags EXCEPT !.exporting = FALSE]
    /\ rpending' = [rpending EXCEPT !.export = @ - 1]
    /\ UNCHANGED <<rtab, rjob, rconnected, raiReport, ronChain, rlog>>
    /\ UNCHANGED reportFrame

\* the Verify control is rendered
VerifyOffered(job) == job.status # "VERIFIED"

\* a handler that calls onVerify whatever the wallet state
HandleVerifyUnchecked(isWalletConnected, job) ==
    [connected |-> isWalletConnected, displayed |-> job.id,
     invoked |-> TRUE, with |-> job.id, alerted |-> FALSE]

\* handleVerify: onVerify(job.id) if isWalletConnected, else the alert
HandleVerify(isWalletConnected, job) ==
    IF isWalletConnected
    THEN [connected |-> TRUE, displayed |-> job.id,
          invoked |-> TRUE, with |-> job.id, alerted |-> FALSE]
    ELSE [connected |-> FALSE, displayed |-> job.id,
          invoked |-> FALSE, with |-> <<>>, alerted |-> TRUE]

\* a verify request: handleVerify runs for the job on display
VerifyClick ==
    /\ rflags.mounted
    /\ VerifyOffered(rjob)
    /\ Len(rlog) < MaxClicks
    /\ rlog' = Append(rlog, HandleVerify(rconnected, rjob))
    /\ UNCHANGED <<rtab, rjob, rconnected, raiReport, ronChain, rflags, rpending>>
    /\ UNCHANGED reportFrame

\* the wallet connects or disconnects: the parent passes a new prop
ConnectionChange ==
    /\ rflags.mounted
    /\ rconnected' = ~rconnected
    /\ UNCHANGED <<rtab, rjob, raiReport, ronChain, rflags, rpending, rlog>>
    /\ UNCHANGED reportFrame

NextReport ==
    \/ Mount
    \/ SwitchTab
    \/ JobChange
    \/ ChainDataArrives
    \/ SummaryArrives
    \/ ExportClick
    \/ ExportEnds
    \/ VerifyClick
    \/ ConnectionChange

-----------------------------------------------------------------------------
(* The "Live Ledger Data" panel of the audit tab.                          *)

RECURSIVE DigitsInt(_)
\* the digits as one integer
DigitsInt(ds) ==
    IF ds = <<>> THEN 0 ELSE 10 * DigitsInt(SubSeq(ds, 1, Len(ds) - 1)) + ds[Len(ds)]

RECURSIVE Pow10(_)
Pow10(e) == IF e = 0 THEN 1 ELSE 10 * Pow10(e - 1)

\* a number in millionths, for numbers with at most six decimals
Micro(x) ==
    (IF x.neg THEN -1 ELSE 1) * DigitsInt(x.digs) * Pow10(x.n - Len(x.digs) + 6)

Abs(i) == IF i < 0 THEN -i ELSE i

\* job.stats?.dockingScore || 0
LocalScore(job) == IF job.hasStats THEN job.score ELSE NumZero

\* Math.abs(onChainData.score - (job.stats?.dockingScore || 0)) < 0.001;
\* the difference of a value that is no number is NaN, and NaN < 0.001 is
\* false
ScoreClose(score, job) ==
    score.t = "number" /\ Abs(Micro(score.num) - Micro(LocalScore(job))) < 1000

\* the rows of the panel for a record: the field shown and whether it is
\* coloured as matching
AuditRows(onChainData, job) ==
    <<[field |-> "moleculeName",
       matches |-> onChainData.moleculeName = JSStr(job.moleculeName)],
      [field |-> "score", matches |-> ScoreClose(onChainData.score, job)],
      [field |-> "jobId", matches |-> onChainData.jobId = JSStr(job.id)]>>

\* the panel: onChainData.score.toFixed(2) throws while rendering when the
\* score is no number
AuditPanel(isLoadingChainData, onChainData, job) ==
    IF LedgerPanel(isLoadingChainData, onChainData) # "record"
    THEN [kind |-> LedgerPanel(isLoadingChainData, onChainData), rows |-> <<>>]
    ELSE IF onChainData.value.score.t # "number"
    THEN [kind |-> "threw", rows |-> <<>>]
    ELSE [kind |-> "record", rows |-> AuditRows(onChainData.value, job)]

-----------------------------------------------------------------------------
(* handleExportPDF: the document is a list of blocks, each on a page       *)
(* between a top and a bottom position; y is the running position.         *)

MaxLines  == 53      \* most wrapped lines of a summary
MaxHeight == 270     \* tallest region image, in document units

PageBottom == 280    \* if (y + h > 280)
PageTop    == 20     \* doc.addPage(); y = 20

NoDoc == [y |-> 0, pages |-> 0, blocks |-> <<>>, raised |-> FALSE]
NoExportOutcome == [saved |-> FALSE, alerted |-> FALSE, exporting |-> FALSE]

\* how a region fails: html2canvas rejects ("capture"), toDataURL or
\* getImageProperties throws ("props"), addImage throws ("embed")
Failures == {"none", "capture", "props", "embed"}

ExportInputs ==
    [hasMolNode : BOOLEAN, hasChartsNode : BOOLEAN, hasStats : BOOLEAN,
     hasTx : BOOLEAN, lines : {1, 30, MaxLines},
     molHeight : {100, MaxHeight}, chartsHeight : {90, MaxHeight},
     molFails : Failures, chartsFails : Failures, saveFails : BOOLEAN]

NoExportInput ==
    [hasMolNode |-> FALSE, hasChartsNode |-> FALSE, hasStats |-> FALSE,
     hasTx |-> FALSE, lines |-> 1, molHeight |-> 100, chartsHeight |-> 90,
     molFails |-> "none", chartsFails |-> "none", saveFails |-> FALSE]

\* a block of height h drawn at the running position
Draw(d, kind, h) ==
    [d EXCEPT !.blocks = Append(@, [kind |-> kind, page |-> d.pages,
                                    top |-> d.y, bottom |-> d.y + h])]

\* y += dy
Advance(d, dy) == [d EXCEPT !.y = @ + dy]

\* if (y + h > 280) { doc.addPage(); y = 20; }
NewPageIf(d, h) ==
    IF d.y + h > PageBottom THEN [d EXCEPT !.y = PageTop, !.pages = @ + 1] ELSE d

\* an exception leaves the statements that follow undone
Raise(d) == [d EXCEPT !.raised = TRUE]

\* new jsPDF(), the header band, let y = 55, the title, y += 15
Title(d) ==
    Advance(Draw(Draw([y |-> 0, pages |-> 1, blocks |-> <<>>, raised |-> FALSE],
                      "header", 40),
                 "title", 0),
            15)

\* doc.addImage(...); y += pdfHeight + gap
Embed(d, kind, h, gap, fails) ==
    IF fails = "embed" THEN Raise(d) ELSE Advance(Draw(d, kind, h), h + gap)

\* the try block of a region after html2canvas settled: the heading,
\* y += 5, the page break, the image
RegionTry(d, heading, kind, h, gap, fails) ==
    IF fails \in {"capture", "props"} THEN Raise(d)
    ELSE Embed(NewPageIf(Advance(Draw(d, heading, 0), 5), h), kind, h, gap, fails)

\* a region whose exception is not caught
NotCaught(d) == d

\* catch (e) { console.error(...) }
Caught(d) == [d EXCEPT !.raised = FALSE]

\* the molecule snapshot: try { ... } catch
MolRegion(d, in) ==
    Caught(RegionTry(d, "molHeading", "molImage", in.molHeight, 10, in.molFails))

\* the charts snapshot after its await: try { ... } catch
ChartsRegion(d, in) ==
    Caught(RegionTry(d, "chartsHeading", "chartsImage", in.chartsHeight, 15, in.chartsFails))

\* if (job.stats): the page break for 40, the heading, y += 8, the box of
\* height 25, y += 35
Metrics(d, in) ==
    IF d.raised \/ ~in.hasStats THEN d
    ELSE Advance(Draw(Advance(Draw(NewPageIf(d, 40), "metricsHeading", 0), 8),
                      "metrics", 25),
                 35)

\* the summary text of n lines: the page break for 5 n, the text,
\* y += 5 n + 15
SummaryText(d, n) == Advance(Draw(NewPageIf(d, 5 * n), "summary", 5 * n), 5 * n + 15)

\* the page break for 50, the heading, y += 8, the text
Summary(d, in) ==
    IF d.raised THEN d
    ELSE SummaryText(Advance(Draw(NewPageIf(d, 50), "summaryHeading", 0), 8), in.lines)

\* if (job.txHash): the page break for 40, the box of height 30
Verification(d, in) ==
    IF d.raised \/ ~in.hasTx THEN d
    ELSE Draw(NewPageIf(d, 40), "verification", 30)

\* the footer of each page, at 290
Footers(d) ==
    IF d.raised THEN d
    ELSE [d EXCEPT !.blocks = @ \o [i \in 1..d.pages |->
              [kind |-> "footer", page |-> i, top |-> 290, bottom |-> 290]]]

\* doc.save(...)
Save(d, in) == IF in.saveFails THEN Raise(d) ELSE d

\* from the summary to doc.save
Finish(d, in) == Save(Footers(Verification(Summary(d, in), in)), in)

\* saved, or the alert of the outer catch; finally { setIsExporting(false) }
Outcome(d) == [saved |-> ~d.raised, alerted |-> d.raised, exporting |-> FALSE]

\* setIsExporting(true)
Exporting == [saved |-> FALSE, alerted |-> FALSE, exporting |-> TRUE]

\* a handler that starts whatever isExporting is
ReturnsAtOnceNever(isExporting) == FALSE

\* if (isExporting) return;
ReturnsAtOnce(isExporting) == isExporting

\* the charts region up to its await: the page break for 80
ChartsCheck(d) == NewPageIf(d, 80)

\* a click on Export PDF: handleExportPDF returns at once while isExporting,
\* and otherwise runs up to its first await, or to its end when there is no
\* region to capture
ExportStart ==
    /\ xpc # "off"
    /\ IF ReturnsAtOnce(xout.exporting)
       THEN UNCHANGED <<xpc, xdoc, xout>>
       ELSE IF xin.hasMolNode
       THEN /\ xdoc' = Title(NoDoc)
            /\ xpc' = "mol"
            /\ xout' = Exporting
       ELSE IF xin.hasChartsNode
       THEN /\ xdoc' = ChartsCheck(Metrics(Title(NoDoc), xin))
            /\ xpc' = "charts"
            /\ xout' = Exporting
       ELSE /\ xdoc' = Finish(Metrics(Title(NoDoc), xin), xin)
            /\ xout' = Outcome(Finish(Metrics(Title(NoDoc), xin), xin))
            /\ xpc' = "done"
    /\ UNCHANGED xin
    /\ UNCHANGED exportFrame

\* html2canvas(molNode) settles: the rest of the molecule region, the
\* metrics, then the charts region up to its await or the end
MolSettles ==
    /\ xpc = "mol"
    /\ IF xin.hasChartsNode /\ ~MolRegion(xdoc, xin).raised
       THEN /\ xdoc' = ChartsCheck(Metrics(MolRegion(xdoc, xin), xin))
            /\ xpc' = "charts"
            /\ UNCHANGED xout
       ELSE /\ xdoc' = Finish(Metrics(MolRegion(xdoc, xin), xin), xin)
            /\ xout' = Outcome(Finish(Metrics(MolRegion(xdoc, xin), xin), xin))
            /\ xpc' = "done"
    /\ UNCHANGED xin
    /\ UNCHANGED exportFrame

\* html2canvas(chartsNode) settles: the rest of the charts region, then the
\* summary, the verification box, the footers and doc.save
ChartsSettles ==
    /\ xpc = "charts"
    /\ xdoc' = Finish(ChartsRegion(xdoc, xin), xin)
    /\ xout' = Outcome(Finish(ChartsRegion(xdoc, xin), xin))
    /\ xpc' = "done"
    /\ UNCHANGED xin
    /\ UNCHANGED exportFrame

NextExport == ExportStart \/ MolSettles \/ ChartsSettles

-----------------------------------------------------------------------------
(* MoleculeViewer.  zoom is held in tenths, the two rotation angles in     *)
(* tenths of a degree, pan in pixels: every step the component makes (0.1, *)
(* 0.2, half a degree per pixel, 0.2 degree per frame) is then an integer. *)
(* Math.min and Math.max return one of their two arguments unchanged, so   *)
(* the clamps are exact in floating point as well.                         *)

ZoomOne    == 10     \* useState(1), setZoom(1)
ZoomMin    == 5      \* Math.max(..., 0.5)
ZoomMax    == 30     \* Math.min(..., 3)
ZoomStep   == 2      \* prev + 0.2, prev - 0.2
WheelStep  == 1      \* delta = e.deltaY > 0 ? -0.1 : 0.1
PitchMax   == 900    \* Math.max(Math.min(..., 90), -90)
Turn       == 3600   \* % 360
PerPixel   == 5      \* sensitivity = 0.5
FrameYaw   == 2      \* prev.y + 0.2

MaxMove   == 1       \* largest movement of one mouse event, in drags of 360 pixels
MaxPan    == 360     \* pan is followed this far from the centre, in pixels
MaxYaw    == 1       \* animation frames are followed from a yaw in 0..MaxYaw-1 tenths

ViewModes == {"ribbon", "surface", "ball-stick"}
BgModes   == <<"midnight", "dark", "light">>
BondIds   == {"hb1"}

Min2(a, b) == IF a < b THEN a ELSE b
Max2(a, b) == IF a > b THEN a ELSE b

\* a % n of JavaScript: the sign of the result is the sign of a
Rem(a, n) == IF a >= 0 THEN a % n ELSE -((-a) % n)

\* a zoom-in that stops one step too late
handleZoomInLate(prev) == Min2(prev + ZoomStep, ZoomMax + ZoomStep)

\* setZoom(prev => Math.min(prev + 0.2, 3))
handleZoomIn(prev) == Min2(prev + ZoomStep, ZoomMax)

\* setZoom(prev => Math.max(prev - 0.2, 0.5))
handleZoomOut(prev) == Max2(prev - ZoomStep, ZoomMin)

\* handleWheel: nothing for deltaY 0, else 0.1 towards the wheel direction
handleWheel(prev, deltaY) ==
    IF Abs(deltaY) > 0
    THEN Min2(Max2(prev + (IF deltaY > 0 THEN -WheelStep ELSE WheelStep), ZoomMin),
              ZoomMax)
    ELSE prev

\* the rotate branch of handleMouseMove
Rotated(prev, movementX, movementY) ==
    [x |-> Max2(Min2(prev.x - movementY * PerPixel, PitchMax), -PitchMax),
     y |-> Rem(prev.y + movementX * PerPixel, Turn)]

\* the pan branch of handleMouseMove
Panned(prev, movementX, movementY) ==
    [x |-> prev.x + movementX, y |-> prev.y + movementY]

\* a handler that moves whether or not a drag is under way
MovesAlways(dragging, dragStart) == TRUE

\* if (!isDragging || !dragStartRef.current) return;
Moves(dragging, dragStart) == dragging /\ dragStart # "null"

\* a toggle that keeps the selection
SelectedAfterToggleKept(shown, selected) == selected

\* if (showHBonds) setSelectedHBond(null)
SelectedAfterToggle(shown, selected) == IF shown THEN "null" ELSE selected

\* modes[(modes.indexOf(bgMode) + 1) % modes.length]
NextBackground(mode) ==
    BgModes[((CHOOSE i \in 1..3 : BgModes[i] = mode) % 3) + 1]

\* [movementX, movementY] of one mouse event: none, or a diagonal drag of
\* whole multiples of 360 pixels (half a turn of yaw)
Movements ==
    {[x |-> k * 360, y |-> -(k * 360)] : k \in -MaxMove..MaxMove}

HandleZoomIn ==
    /\ zoom' = handleZoomIn(zoom)
    /\ UNCHANGED <<viewMode, isRotating, pan, rotation, bgMode, interactionMode,
                   showHBonds, selectedHBond, isDragging, dragStartRef>>
    /\ UNCHANGED viewerFrame

HandleZoomOut ==
    /\ zoom' = handleZoomOut(zoom)
    /\ UNCHANGED <<viewMode, isRotating, pan, rotation, bgMode, interactionMode,
                   showHBonds, selectedHBond, isDragging, dragStartRef>>
    /\ UNCHANGED viewerFrame

HandleWheel ==
    /\ \E deltaY \in {-1, 0, 1} : zoom' = handleWheel(zoom, deltaY)
    /\ UNCHANGED <<viewMode, isRotating, pan, rotation, bgMode, interactionMode,
                   showHBonds, selectedHBond, isDragging, dragStartRef>>
    /\ UNCHANGED viewerFrame

HandleReset ==
    /\ zoom' = ZoomOne
    /\ pan' = [x |-> 0, y |-> 0]
    /\ rotation' = [x |-> 0, y |-> 0]
    /\ isRotating' = TRUE
    /\ showHBonds' = FALSE
    /\ selectedHBond' = "null"
    /\ interactionMode' = "rotate"
    /\ UNCHANGED <<viewMode, bgMode, isDragging, dragStartRef>>
    /\ UNCHANGED viewerFrame

ToggleBackground ==
    /\ bgMode' = NextBackground(bgMode)
    /\ UNCHANGED <<viewMode, isRotating, zoom, pan, rotation, interactionMode,
                   showHBonds, selectedHBond, isDragging, dragStartRef>>
    /\ UNCHANGED viewerFrame

\* onClick={() => setViewMode(mode)}
SetViewMode ==
    /\ \E mode \in ViewModes : viewMode' = mode
    /\ UNCHANGED <<isRotating, zoom, pan, rotation, bgMode, interactionMode,
                   showHBonds, selectedHBond, isDragging, dragStartRef>>
    /\ UNCHANGED viewerFrame

\* onClick={() => setIsRotating(!isRotating)}
ToggleRotation ==
    /\ isRotating' = ~isRotating
    /\ UNCHANGED <<viewMode, zoom, pan, rotation, bgMode, interactionMode,
                   showHBonds, selectedHBond, isDragging, dragStartRef>>
    /\ UNCHANGED viewerFrame

\* onClick={() => setInteractionMode('rotate')}, ...('pan')
SetInteractionMode ==
    /\ \E mode \in {"rotate", "pan"} : interactionMode' = mode
    /\ UNCHANGED <<viewMode, isRotating, zoom, pan, rotation, bgMode,
                   showHBonds, selectedHBond, isDragging, dragStartRef>>
    /\ UNCHANGED viewerFrame

\* the Toggle Hydrogen Bonds button
ToggleHBonds ==
    /\ showHBonds' = ~showHBonds
    /\ selectedHBond' = SelectedAfterToggle(showHBonds, selectedHBond)
    /\ UNCHANGED <<viewMode, isRotating, zoom, pan, rotation, bgMode,
                   interactionMode, isDragging, dragStartRef>>
    /\ UNCHANGED viewerFrame

HandleAtomClick ==
    /\ \E bondId \in BondIds :
          IF ~showHBonds
          THEN showHBonds' = TRUE /\ selectedHBond' = bondId
          ELSE /\ selectedHBond' = (IF selectedHBond = bondId THEN "null" ELSE bondId)
               /\ UNCHANGED showHBonds
    /\ UNCHANGED <<viewMode, isRotating, zoom, pan, rotation, bgMode,
                   interactionMode, isDragging, dragStartRef>>
    /\ UNCHANGED viewerFrame

HandleMouseDown ==
    /\ isDragging' = TRUE
    /\ isRotating' = FALSE
    /\ dragStartRef' = "point"
    /\ UNCHANGED <<viewMode, zoom, pan, rotation, bgMode, interactionMode,
                   showHBonds, selectedHBond>>
    /\ UNCHANGED viewerFrame

\* pan is followed up to MaxPan from the centre
HandleMouseMove ==
    /\ \E e \in Movements :
          IF ~Moves(isDragging, dragStartRef)
          THEN UNCHANGED <<pan, rotation>>
          ELSE IF interactionMode = "pan"
          THEN /\ Abs(pan.x + e.x) <= MaxPan
               /\ Abs(pan.y + e.y) <= MaxPan
               /\ pan' = Panned(pan, e.x, e.y)
               /\ UNCHANGED rotation
          ELSE /\ rotation' = Rotated(rotation, e.x, e.y)
               /\ UNCHANGED pan
    /\ UNCHANGED <<viewMode, isRotating, zoom, bgMode, interactionMode,
                   showHBonds, selectedHBond, isDragging, dragStartRef>>
    /\ UNCHANGED viewerFrame

\* onMouseUp and onMouseLeave
HandleMouseUp ==
    /\ isDragging' = FALSE
    /\ dragStartRef' = "null"
    /\ UNCHANGED <<viewMode, isRotating, zoom, pan, rotation, bgMode,
                   interactionMode, showHBonds, selectedHBond>>
    /\ UNCHANGED viewerFrame

\* one animation frame of the auto-rotation effect, followed from a yaw
\* below MaxYaw
Animate ==
    /\ isRotating
    /\ rotation.y >= 0
    /\ rotation.y < MaxYaw
    /\ rotation' = [rotation EXCEPT !.y = Rem(@ + FrameYaw, Turn)]
    /\ UNCHANGED <<viewMode, isRotating, zoom, pan, bgMode, interactionMode,
                   showHBonds, selectedHBond, isDragging, dragStartRef>>
    /\ UNCHANGED viewerFrame

NextViewer ==
    \/ HandleZoomIn
    \/ HandleZoomOut
    \/ HandleWheel
    \/ HandleReset
    \/ ToggleBackground
    \/ SetViewMode
    \/ ToggleRotation
    \/ SetInteractionMode
    \/ ToggleHBonds
    \/ HandleAtomClick
    \/ HandleMouseDown
    \/ HandleMouseMove
    \/ HandleMouseUp
    \/ Animate

-----------------------------------------------------------------------------
(* Specifications.                                                         *)

\* a report about to be encoded, or bytes received from a memo instruction
InitCodec ==
    /\ decoded = NoResult
    /\ \/ /\ report \in ValidReports
          /\ wire = <<>>
          /\ cstage = "start"
       \/ /\ report = EmptyReport
          /\ wire \in RawInputs
          /\ cstage = "received"
    \* no fetch is in progress
    /\ fpc = "off"
    /\ ftx = NoTx
    /\ fresult = FNone
    \* no wallet is installed or connected
    /\ win = [phantom |-> "absent", solana |-> "absent"]
    /\ walletKey = "null"
    \* no verification is in progress
    /\ vpc = "off"
    /\ vargs = NoArgs
    /\ vdata = <<>>
    /\ vtx = NoTransaction
    /\ vsig = "none"
    /\ vtrace = <<>>
    /\ vcause = "none"
    /\ voutcome = VNone
    \* no connection attempt is in progress
    /\ kpc = "off"
    /\ kmobile = FALSE
    /\ ki = 0
    /\ kabsent = 0
    /\ kwaits = 0
    /\ kelapsed = 0
    /\ koutcome = KNone
    \* no summary is being generated
    /\ gpc = "off"
    /\ gkey = FALSE
    /\ gargs = NoGenArgs
    /\ gclock = 0
    /\ gerr = NoError
    /\ goutcome = GNone
    \* no Report view is open
    /\ rtab = "off"
    /\ rjob = NoJob
    /\ rconnected = FALSE
    /\ raiReport = <<>>
    /\ ronChain = FNull
    /\ rflags = NoFlags
    /\ rpending = NonePending
    /\ rlog = <<>>
    \* no export is running
    /\ xpc = "off"
    /\ xin = NoExportInput
    /\ xdoc = NoDoc
    /\ xout = NoExportOutcome
    \* the molecule viewer as first rendered
    /\ viewMode = "ribbon"
    /\ isRotating = TRUE
    /\ zoom = ZoomOne
    /\ pan = [x |-> 0, y |-> 0]
    /\ rotation = [x |-> 0, y |-> 0]
    /\ bgMode = "midnight"
    /\ interactionMode = "rotate"
    /\ showHBonds = FALSE
    /\ selectedHBond = "null"
    /\ isDragging = FALSE
    /\ dragStartRef = "null"

\* before fetchJobFromChain is called
InitFetch ==
    /\ fpc = "idle"
    /\ ftx = NoTx
    /\ fresult = FNone
    \* the codec is not exercised
    /\ report = EmptyReport
    /\ wire = <<>>
    /\ decoded = NoResult
    /\ cstage = "off"
    \* no wallet is installed or connected
    /\ win = [phantom |-> "absent", solana |-> "absent"]
    /\ walletKey = "null"
    \* no verification is in progress
    /\ vpc = "off"
    /\ vargs = NoArgs
    /\ vdata = <<>>
    /\ vtx = NoTransaction
    /\ vsig = "none"
    /\ vtrace = <<>>
    /\ vcause = "none"
    /\ voutcome = VNone
    \* no connection attempt is in progress
    /\ kpc = "off"
    /\ kmobile = FALSE
    /\ ki = 0
    /\ kabsent = 0
    /\ kwaits = 0
    /\ kelapsed = 0
    /\ koutcome = KNone
    \* no summary is being generated
    /\ gpc = "off"
    /\ gkey = FALSE
    /\ gargs = NoGenArgs
    /\ gclock = 0
    /\ gerr = NoError
    /\ goutcome = GNone
    \* no Report view is open
    /\ rtab = "off"
    /\ rjob = NoJob
    /\ rconnected = FALSE
    /\ raiReport = <<>>
    /\ ronChain = FNull
    /\ rflags = NoFlags
    /\ rpending = NonePending
    /\ rlog = <<>>
    \* no export is running
    /\ xpc = "off"
    /\ xin = NoExportInput
    /\ xdoc = NoDoc
    /\ xout = NoExportOutcome
    \* the molecule viewer as first rendered
    /\ viewMode = "ribbon"
    /\ isRotating = TRUE
    /\ zoom = ZoomOne
    /\ pan = [x |-> 0, y |-> 0]
    /\ rotation = [x |-> 0, y |-> 0]
    /\ bgMode = "midnight"
    /\ interactionMode = "rotate"
    /\ showHBonds = FALSE
    /\ selectedHBond = "null"
    /\ isDragging = FALSE
    /\ dragStartRef = "null"

\* before verifyJobOnChain is called, with any wallet state
InitVerify ==
    /\ vpc = "idle"
    /\ vargs \in VerifyArgs
    /\ vdata = <<>>
    /\ vtx = NoTransaction
    /\ vsig = "none"
    /\ vtrace = <<>>
    /\ vcause = "none"
    /\ voutcome = VNone
    /\ win \in Windows
    /\ walletKey \in PublicKeys
    \* the codec is not exercised
    /\ report = EmptyReport
    /\ wire = <<>>
    /\ decoded = NoResult
    /\ cstage = "off"
    \* no fetch is in progress
    /\ fpc = "off"
    /\ ftx = NoTx
    /\ fresult = FNone
    \* no connection attempt is in progress
    /\ kpc = "off"
    /\ kmobile = FALSE
    /\ ki = 0
    /\ kabsent = 0
    /\ kwaits = 0
    /\ kelapsed = 0
    /\ koutcome = KNone
    \* no summary is being generated
    /\ gpc = "off"
    /\ gkey = FALSE
    /\ gargs = NoGenArgs
    /\ gclock = 0
    /\ gerr = NoError
    /\ goutcome = GNone
    \* no Report view is open
    /\ rtab = "off"
    /\ rjob = NoJob
    /\ rconnected = FALSE
    /\ raiReport = <<>>
    /\ ronChain = FNull
    /\ rflags = NoFlags
    /\ rpending = NonePending
    /\ rlog = <<>>
    \* no export is running
    /\ xpc = "off"
    /\ xin = NoExportInput
    /\ xdoc = NoDoc
    /\ xout = NoExportOutcome
    \* the molecule viewer as first rendered
    /\ viewMode = "ribbon"
    /\ isRotating = TRUE
    /\ zoom = ZoomOne
    /\ pan = [x |-> 0, y |-> 0]
    /\ rotation = [x |-> 0, y |-> 0]
    /\ bgMode = "midnight"
    /\ interactionMode = "rotate"
    /\ showHBonds = FALSE
    /\ selectedHBond = "null"
    /\ isDragging = FALSE
    /\ dragStartRef = "null"

\* before connectWallet is called, on a desktop or a mobile browser
InitConnect ==
    /\ kpc = "idle"
    /\ kmobile \in BOOLEAN
    /\ ki = 0
    /\ kabsent = 0
    /\ kwaits = 0
    /\ kelapsed = 0
    /\ koutcome = KNone
    /\ win \in Windows
    /\ walletKey \in PublicKeys
    \* the codec is not exercised
    /\ report = EmptyReport
    /\ wire = <<>>
    /\ decoded = NoResult
    /\ cstage = "off"
    \* no fetch is in progress
    /\ fpc = "off"
    /\ ftx = NoTx
    /\ fresult = FNone
    \* no verification is in progress
    /\ vpc = "off"
    /\ vargs = NoArgs
    /\ vdata = <<>>
    /\ vtx = NoTransaction
    /\ vsig = "none"
    /\ vtrace = <<>>
    /\ vcause = "none"
    /\ voutcome = VNone
    \* no summary is being generated
    /\ gpc = "off"
    /\ gkey = FALSE
    /\ gargs = NoGenArgs
    /\ gclock = 0
    /\ gerr = NoError
    /\ goutcome = GNone
    \* no Report view is open
    /\ rtab = "off"
    /\ rjob = NoJob
    /\ rconnected = FALSE
    /\ raiReport = <<>>
    /\ ronChain = FNull
    /\ rflags = NoFlags
    /\ rpending = NonePending
    /\ rlog = <<>>
    \* no export is running
    /\ xpc = "off"
    /\ xin = NoExportInput
    /\ xdoc = NoDoc
    /\ xout = NoExportOutcome
    \* the molecule viewer as first rendered
    /\ viewMode = "ribbon"
    /\ isRotating = TRUE
    /\ zoom = ZoomOne
    /\ pan = [x |-> 0, y |-> 0]
    /\ rotation = [x |-> 0, y |-> 0]
    /\ bgMode = "midnight"
    /\ interactionMode = "rotate"
    /\ showHBonds = FALSE
    /\ selectedHBond = "null"
    /\ isDragging = FALSE
    /\ dragStartRef = "null"

\* before generateReportFromStats is called, with or without a credential
InitGen ==
    /\ gpc = "idle"
    /\ gkey \in BOOLEAN
    /\ gargs \in GenArgs
    /\ gclock = 0
    /\ gerr = NoError
    /\ goutcome = GNone
    \* no fetch is in progress
    /\ fpc = "off"
    /\ ftx = NoTx
    /\ fresult = FNone
    \* no wallet is installed or connected
    /\ win = [phantom |-> "absent", solana |-> "absent"]
    /\ walletKey = "null"
    \* no verification is in progress
    /\ vpc = "off"
    /\ vargs = NoArgs
    /\ vdata = <<>>
    /\ vtx = NoTransaction
    /\ vsig = "none"
    /\ vtrace = <<>>
    /\ vcause = "none"
    /\ voutcome = VNone
    \* no connection attempt is in progress
    /\ kpc = "off"
    /\ kmobile = FALSE
    /\ ki = 0
    /\ kabsent = 0
    /\ kwaits = 0
    /\ kelapsed = 0
    /\ koutcome = KNone
    \* the codec is not exercised
    /\ report = EmptyReport
    /\ wire = <<>>
    /\ decoded = NoResult
    /\ cstage = "off"
    \* no Report view is open
    /\ rtab = "off"
    /\ rjob = NoJob
    /\ rconnected = FALSE
    /\ raiReport = <<>>
    /\ ronChain = FNull
    /\ rflags = NoFlags
    /\ rpending = NonePending
    /\ rlog = <<>>
    \* no export is running
    /\ xpc = "off"
    /\ xin = NoExportInput
    /\ xdoc = NoDoc
    /\ xout = NoExportOutcome
    \* the molecule viewer as first rendered
    /\ viewMode = "ribbon"
    /\ isRotating = TRUE
    /\ zoom = ZoomOne
    /\ pan = [x |-> 0, y |-> 0]
    /\ rotation = [x |-> 0, y |-> 0]
    /\ bgMode = "midnight"
    /\ interactionMode = "rotate"
    /\ showHBonds = FALSE
    /\ selectedHBond = "null"
    /\ isDragging = FALSE
    /\ dragStartRef = "null"

\* the Report view as constructed for a job: the summary tab, aiReport from job.reportSummary
InitReport ==
    /\ rtab = "summary"
    /\ rjob \in Jobs
    /\ rconnected \in BOOLEAN
    /\ raiReport \in {<<>>, Literal("noAnalysis")}
    /\ ronChain = FNull
    /\ rflags = NoFlags
    /\ rpending = NonePending
    /\ rlog = <<>>
    \* no fetch is in progress
    /\ fpc = "off"
    /\ ftx = NoTx
    /\ fresult = FNone
    \* no wallet is installed or connected
    /\ win = [phantom |-> "absent", solana |-> "absent"]
    /\ walletKey = "null"
    \* no verification is in progress
    /\ vpc = "off"
    /\ vargs = NoArgs
    /\ vdata = <<>>
    /\ vtx = NoTransaction
    /\ vsig = "none"
    /\ vtrace = <<>>
    /\ vcause = "none"
    /\ voutcome = VNone
    \* no connection attempt is in progress
    /\ kpc = "off"
    /\ kmobile = FALSE
    /\ ki = 0
    /\ kabsent = 0
    /\ kwaits = 0
    /\ kelapsed = 0
    /\ koutcome = KNone
    \* no summary is being generated
    /\ gpc = "off"
    /\ gkey = FALSE
    /\ gargs = NoGenArgs
    /\ gclock = 0
    /\ gerr = NoError
    /\ goutcome = GNone
    \* the codec is not exercised
    /\ report = EmptyReport
    /\ wire = <<>>
    /\ decoded = NoResult
    /\ cstage = "off"
    \* no export is running
    /\ xpc = "off"
    /\ xin = NoExportInput
    /\ xdoc = NoDoc
    /\ xout = NoExportOutcome
    \* the molecule viewer as first rendered
    /\ viewMode = "ribbon"
    /\ isRotating = TRUE
    /\ zoom = ZoomOne
    /\ pan = [x |-> 0, y |-> 0]
    /\ rotation = [x |-> 0, y |-> 0]
    /\ bgMode = "midnight"
    /\ interactionMode = "rotate"
    /\ showHBonds = FALSE
    /\ selectedHBond = "null"
    /\ isDragging = FALSE
    /\ dragStartRef = "null"

\* the Export PDF button is pressed
InitExport ==
    /\ xpc = "idle"
    /\ xin \in ExportInputs
    /\ xdoc = NoDoc
    /\ xout = NoExportOutcome
    \* no fetch is in progress
    /\ fpc = "off"
    /\ ftx = NoTx
    /\ fresult = FNone
    \* no wallet is installed or connected
    /\ win = [phantom |-> "absent", solana |-> "absent"]
    /\ walletKey = "null"
    \* no verification is in progress
    /\ vpc = "off"
    /\ vargs = NoArgs
    /\ vdata = <<>>
    /\ vtx = NoTransaction
    /\ vsig = "none"
    /\ vtrace = <<>>
    /\ vcause = "none"
    /\ voutcome = VNone
    \* no connection attempt is in progress
    /\ kpc = "off"
    /\ kmobile = FALSE
    /\ ki = 0
    /\ kabsent = 0
    /\ kwaits = 0
    /\ kelapsed = 0
    /\ koutcome = KNone
    \* no summary is being generated
    /\ gpc = "off"
    /\ gkey = FALSE
    /\ gargs = NoGenArgs
    /\ gclock = 0
    /\ gerr = NoError
    /\ goutcome = GNone
    \* no Report view is open
    /\ rtab = "off"
    /\ rjob = NoJob
    /\ rconnected = FALSE
    /\ raiReport = <<>>
    /\ ronChain = FNull
    /\ rflags = NoFlags
    /\ rpending = NonePending
    /\ rlog = <<>>
    \* the codec is not exercised
    /\ report = EmptyReport
    /\ wire = <<>>
    /\ decoded = NoResult
    /\ cstage = "off"
    \* the molecule viewer as first rendered
    /\ viewMode = "ribbon"
    /\ isRotating = TRUE
    /\ zoom = ZoomOne
    /\ pan = [x |-> 0, y |-> 0]
    /\ rotation = [x |-> 0, y |-> 0]
    /\ bgMode = "midnight"
    /\ interactionMode = "rotate"
    /\ showHBonds = FALSE
    /\ selectedHBond = "null"
    /\ isDragging = FALSE
    /\ dragStartRef = "null"

\* the viewer as first rendered
InitViewer ==
    \* no fetch is in progress
    /\ fpc = "off"
    /\ ftx = NoTx
    /\ fresult = FNone
    \* no wallet is installed or connected
    /\ win = [phantom |-> "absent", solana |-> "absent"]
    /\ walletKey = "null"
    \* no verification is in progress
    /\ vpc = "off"
    /\ vargs = NoArgs
    /\ vdata = <<>>
    /\ vtx = NoTransaction
    /\ vsig = "none"
    /\ vtrace = <<>>
    /\ vcause = "none"
    /\ voutcome = VNone
    \* no connection attempt is in progress
    /\ kpc = "off"
    /\ kmobile = FALSE
    /\ ki = 0
    /\ kabsent = 0
    /\ kwaits = 0
    /\ kelapsed = 0
    /\ koutcome = KNone
    \* no summary is being generated
    /\ gpc = "off"
    /\ gkey = FALSE
    /\ gargs = NoGenArgs
    /\ gclock = 0
    /\ gerr = NoError
    /\ goutcome = GNone
    \* no Report view is open
    /\ rtab = "off"
    /\ rjob = NoJob
    /\ rconnected = FALSE
    /\ raiReport = <<>>
    /\ ronChain = FNull
    /\ rflags = NoFlags
    /\ rpending = NonePending
    /\ rlog = <<>>
    \* no export is running
    /\ xpc = "off"
    /\ xin = NoExportInput
    /\ xdoc = NoDoc
    /\ xout = NoExportOutcome
    \* the molecule viewer as first rendered
    /\ viewMode = "ribbon"
    /\ isRotating = TRUE
    /\ zoom = ZoomOne
    /\ pan = [x |-> 0, y |-> 0]
    /\ rotation = [x |-> 0, y |-> 0]
    /\ bgMode = "midnight"
    /\ interactionMode = "rotate"
    /\ showHBonds = FALSE
    /\ selectedHBond = "null"
    /\ isDragging = FALSE
    /\ dragStartRef = "null"
    \* the codec is not exercised
    /\ report = EmptyReport
    /\ wire = <<>>
    /\ decoded = NoResult
    /\ cstage = "off"

SpecCodec ==
    InitCodec /\ [][NextCodec]_vars

SpecFetch ==
    InitFetch /\ [][NextFetch]_vars

SpecVerify ==
    InitVerify /\ [][NextVerify]_vars

\* timers fire: the event loop runs every setTimeout callback that is due
SpecConnect ==
    InitConnect
    /\ [][NextConnect]_vars /\ WF_vars(ConnectRetry)

SpecReport ==
    InitReport /\ [][NextReport]_vars

\* the two effects of the Report view and the promises they start; a
\* started generateReportFromStats promise settles
NextSummary ==
    \/ Mount
    \/ SwitchTab
    \/ JobChange
    \/ ChainDataArrives
    \/ SummaryArrives

SpecSummary ==
    InitReport /\ [][NextSummary]_vars /\ WF_vars(SummaryArrives)

SpecExport ==
    InitExport /\ [][NextExport]_vars

SpecGen ==
    InitGen /\ [][NextGen]_vars

SpecViewer ==
    InitViewer /\ [][NextViewer]_vars

-----------------------------------------------------------------------------
(* Properties of the codec.                                                *)

IsZero(v) == v.t = "number" /\ v.num.digs = <<>>

\* a === b for two numbers: the two zeros are equal to each other
SameNumber(a, b) == a = b \/ (IsZero(a) /\ IsZero(b))

\* C1, as claimed: decoding an encoded record gives back a record whose
\* four fields are exactly those of the record that was encoded.
C1_RoundTripExact ==
    cstage = "roundtrip" => (~decoded.threw /\ decoded.value = report)

\* C1, amended: decoding an encoded record gives back the same jobId,
\* moleculeName and timestamp, and a score that is the same number, a
\* negative zero coming back as positive zero; the record J1 / Aspirin /
\* -7.42 / 1700000000000 comes back with moleculeName Aspirin and score -7.42.
C1_RoundTrip ==
    cstage = "roundtrip" =>
        /\ ~decoded.threw
        /\ decoded.value.jobId = report.jobId
        /\ decoded.value.moleculeName = report.moleculeName
        /\ decoded.value.timestamp = report.timestamp
        /\ SameNumber(decoded.value.score, report.score)
        /\ (~IsZero(report.score) => decoded.value.score = report.score)
        /\ (report = SampleReport =>
                /\ decoded.value.moleculeName = JSStr(T_Aspirin)
                /\ decoded.value.score = JSNum(N_minus742))

C1_Witness ==
    /\ cstage = "roundtrip"
    /\ report = SampleReport
    /\ decoded.value = SampleReport

\* C2: deserializeDockingReport never throws, and an input that is not
\* valid JSON (empty, cut short, ill-formed) decodes to the empty record.
C2_NeverThrows ==
    cstage \in {"decoded", "roundtrip"} =>
        /\ ~decoded.threw
        /\ (~JSONParse(TextDecode(wire)).ok => decoded.value = EmptyReport)

C2_Witness ==
    /\ cstage = "decoded"
    /\ wire \in Truncations
    /\ Len(wire) > 1
    /\ ~JSONParse(TextDecode(wire)).ok
    /\ decoded = Returned(EmptyReport)

-----------------------------------------------------------------------------
(* Properties of fetchJobFromChain.                                        *)

\* no instruction's program-id index resolves to the memo program
NoMemoInstruction(m) ==
    \A i \in 1..Len(m.compiledInstructions) : ~IsMemoAt(m, i)

\* C3: fetchJobFromChain never raises, and resolves to null when the
\* lookup failed, the transaction is missing or incomplete, or no
\* instruction's program-id index resolves to the memo program.
C3_NeverRaises ==
    fpc = "done" =>
        /\ fresult.kind \in {"null", "record"}
        /\ (ftx.settled # "tx" => fresult = FNull)
        /\ (ftx.settled = "tx" /\ NoMemoInstruction(ftx.message) => fresult = FNull)

C3_Witness ==
    /\ fpc = "done"
    /\ ftx.settled = "tx"
    /\ NoMemoInstruction(ftx.message)
    /\ \E i \in 1..Len(ftx.message.compiledInstructions) : KeyMissing(ftx.message, i)
    /\ fresult = FNull

\* the data of the memo instruction the loop stopped at is not JSON
MalformedMemo(resp) ==
    /\ resp.settled = "tx"
    /\ LoopStop(resp.message) > 0
    /\ IsMemoAt(resp.message, LoopStop(resp.message))
    /\ ~JSONParse(TextDecode(
            resp.message.compiledInstructions[LoopStop(resp.message)].data)).ok

\* C4, as claimed: a memo instruction with a malformed payload makes
\* fetchJobFromChain resolve to null, and the audit view then shows
\* 'Could not verify on-chain data.'
C4_MalformedIsNull ==
    fpc = "done" /\ MalformedMemo(ftx) =>
        /\ fresult = FNull
        /\ LedgerPanel(FALSE, fresult) = "Could not verify on-chain data."

-----------------------------------------------------------------------------
(* Properties of verifyJobOnChain.                                         *)

Count(seq, x) == Cardinality({i \in DOMAIN seq : seq[i] = x})

IsPrefix(a, b) == Len(a) <= Len(b) /\ SubSeq(b, 1, Len(a)) = a

\* C5, as claimed: every failure after the wallet-connected check reaches
\* the caller as the one 'Transaction failed...' error.
C5_SingleFailureMessage ==
    voutcome.kind = "threw" /\ vtrace # <<>> => voutcome.error = ERR_TX_FAILED

\* C6: a call requests sign-and-submit at most once; a call that returns a
\* signature has submitted one transaction with one memo instruction and
\* returns the signature the wallet gave for it.
C6_SingleSubmission ==
    /\ Count(vtrace, "signAndSendTransaction") <= 1
    /\ voutcome.kind = "returned" =>
          /\ Count(vtrace, "signAndSendTransaction") = 1
          /\ Len(vtx.instructions) = 1
          /\ vtx.instructions[1].programId = BIOCHAIN_PROGRAM_ID
          /\ vsig \in Signatures
          /\ voutcome.signature = vsig

C6_Witness ==
    /\ vpc = "done"
    /\ voutcome.kind = "returned"
    /\ Count(vtrace, "signAndSendTransaction") = 1

\* the four ways a call that passed the wallet check can run
CompleteTraces ==
    {<<"getLatestBlockhash", "blockhash rejected">>,
     <<"getLatestBlockhash", "blockhash", "signAndSendTransaction", "sign rejected">>,
     <<"getLatestBlockhash", "blockhash", "signAndSendTransaction", "signed",
       "confirmTransaction", "confirm rejected">>,
     <<"getLatestBlockhash", "blockhash", "signAndSendTransaction", "signed",
       "confirmTransaction", "confirmed">>}

\* C7: the blockhash is obtained, then sign-and-submit is requested, then
\* confirmation is awaited; the signature is returned only once the
\* confirmation has succeeded, and a failed confirmation fails the call.
C7_Order ==
    /\ \E full \in CompleteTraces : IsPrefix(vtrace, full)
    /\ voutcome.kind = "returned" =>
          /\ vtrace # <<>>
          /\ vtrace[Len(vtrace)] = "confirmed"
    /\ Count(vtrace, "confirm rejected") > 0 =>
          /\ voutcome.kind = "threw"
          /\ voutcome.signature = "none"

C7_Witness ==
    /\ vpc = "done"
    /\ vsig \in Signatures
    /\ Count(vtrace, "confirm rejected") = 1
    /\ voutcome.kind = "threw"

\* C8, as claimed: whenever sign-and-submit is requested the transaction
\* holds one instruction, to the memo program, whose one account is the
\* connected wallet's non-null public key, marked signer and set as fee
\* payer, and whose data is the serialized record of the call.
C8_SubmittedTransaction ==
    [][vpc = "blockhash" /\ vpc' = "signing" =>
          /\ Len(vtx'.instructions) = 1
          /\ vtx'.instructions[1].programId = BIOCHAIN_PROGRAM_ID
          /\ Len(vtx'.instructions[1].keys) = 1
          /\ vtx'.instructions[1].keys[1].pubkey = walletKey'
          /\ vtx'.instructions[1].keys[1].pubkey \in Accounts
          /\ vtx'.instructions[1].keys[1].isSigner
          /\ vtx'.feePayer = vtx'.instructions[1].keys[1].pubkey
          /\ vtx'.instructions[1].data =
                serializeDockingReport(
                    MkReport(vargs.jobId, vargs.moleculeName, vargs.score, vargs.now))
      ]_vars

-----------------------------------------------------------------------------
(* Properties of connectWallet.                                            *)

NoWalletConcluded == koutcome.branch \in {"mobile", "desktop"}

\* C9: never more than 10 retries; no wallet is concluded only after the
\* initial probe and 10 more probes, each after a 100 ms wait, found no
\* provider; the first probe that finds a provider ends the retries; and
\* the retry loop always ends.
C9_Retries ==
    /\ [](/\ kwaits <= 10
          /\ ki <= 10
          /\ (NoWalletConcluded =>
                 kabsent = 11 /\ kwaits = 10 /\ kelapsed = 1000)
          /\ (koutcome.branch = "found" => kabsent = kwaits /\ kelapsed = 100 * kwaits)
          /\ (kpc = "sleep" => kabsent = kwaits + 1))
    /\ (kpc = "sleep" ~> kpc \in {"connecting", "done"})

C9_Witness ==
    /\ kpc = "done"
    /\ NoWalletConcluded
    /\ kabsent = 11

\* C10, as claimed: on a mobile user agent with no provider the deep-link
\* branch is taken without any retry wait before it.
C10_MobileSkipsRetries ==
    koutcome.branch = "mobile" => kwaits = 0

\* C10, amended: on a mobile user agent, when the initial probe and the 10
\* retries (10 waits of 100 ms) all found no provider, connectWallet takes
\* the deep-link branch instead of the 'not found' alert: it prompts,
\* redirects only if the user accepts, and resolves to null.
C10_MobileAfterRetries ==
    NoWalletConcluded =>
        /\ (koutcome.branch = "mobile") = kmobile
        /\ kwaits = MaxRetries
        /\ kelapsed = MaxRetries * RetryDelayMs
        /\ koutcome.value = "null"
        /\ (kmobile => koutcome.prompted /\ ~koutcome.alerted)
        /\ (~kmobile => koutcome.alerted /\ ~koutcome.prompted /\ ~koutcome.redirected)

C10_Witness ==
    /\ kpc = "done"
    /\ kmobile
    /\ koutcome.branch = "mobile"
    /\ koutcome.redirected

\* C11: neither connectWallet nor checkWalletConnection raises to its
\* caller, whatever the wallet globals are and however provider.connect
\* settles.
C11_NeverRaises ==
    koutcome.kind # "threw"

-----------------------------------------------------------------------------
(* Properties of generateReportFromStats.                                  *)

\* sub occurs in text
Contains(text, sub) ==
    \E i \in 1..(Len(text) - Len(sub) + 1) : SubSeq(text, i, i + Len(sub) - 1) = sub

\* text carries the molecule name and the five stats of args as printed
CarriesInputs(text, args) ==
    /\ Contains(text, args.moleculeName)
    /\ Contains(text, NumberToString(args.stats.dockingScore))
    /\ Contains(text, NumberToString(args.stats.bindingEfficiency))
    /\ Contains(text, NumberToString(args.stats.molecularWeight))
    /\ Contains(text, NumberToString(args.stats.hBondDonors))
    /\ Contains(text, NumberToString(args.stats.hBondAcceptors))

\* C12: without a credential the call resolves, not before 1500 ms have
\* passed, to a text labelled as simulated that contains the molecule name
\* and the five stats.
C12_FallbackWithoutCredential ==
    (gpc = "done" /\ ~gkey) =>
        /\ goutcome.kind = "returned"
        /\ gclock >= FallbackDelayMs
        /\ IsPrefix(Literal("prefix"), goutcome.text)
        /\ CarriesInputs(goutcome.text, gargs)

C12_Witness ==
    /\ gpc = "done"
    /\ ~gkey
    /\ gargs.moleculeName = T_Aspirin
    /\ gargs.stats.dockingScore = N_minus742
    /\ goutcome.kind = "returned"

\* the thrown value is a 429-style error: status 429, a message containing
\* '429', or a text containing 'Quota exceeded'
Is429Style(e) ==
    ~e.nullish /\ (e.status = 429 \/ e.message = "has429" \/ e.text = "quota")

\* text without its first n code units
Drop(text, n) == SubSeq(text, n + 1, Len(text))

LabelledSimulated(text) ==
    IsPrefix(Literal("prefix"), text) \/ IsPrefix(Literal("quotaPrefix"), text)

\* C14: whatever value the text-generation call fails with, the call
\* resolves to a text labelled as simulated that summarises the input
\* fields; it never rejects.
C14_EveryFailureFallsBack ==
    (gpc = "done" /\ gkey /\ gerr # NoError) =>
        /\ goutcome.kind = "returned"
        /\ LabelledSimulated(goutcome.text)
        /\ CarriesInputs(goutcome.text, gargs)

-----------------------------------------------------------------------------
(* Which instruction fetchJobFromChain decodes.                            *)

\* the memo instructions of a message, by position
MemoPositions(m) == {i \in 1..Len(m.compiledInstructions) : IsMemoAt(m, i)}

\* the first of them in compiled-instruction order
FirstMemo(m) == CHOOSE i \in MemoPositions(m) : \A j \in MemoPositions(m) : i <= j

\* the record decoded from the data of instruction i
RecordAt(m, i) == FRecord(deserializeDockingReport(m.compiledInstructions[i].data).value)

\* C15, as claimed: whenever the transaction has a memo instruction, the
\* call resolves to the record decoded from the data of the first one.
C15_FirstMemoAlways ==
    (fpc = "done" /\ ftx.settled = "tx" /\ MemoPositions(ftx.message) # {}) =>
        fresult = RecordAt(ftx.message, FirstMemo(ftx.message))

\* C15, amended: when the transaction has a memo instruction and the
\* program-id index of every instruction before the first one resolves to
\* an account key, the call resolves to the record decoded from the data of
\* that first memo instruction, whatever the other instructions carry; when
\* an earlier index resolves to no key, it resolves to null.
C15_FirstMemoDecoded ==
    (fpc = "done" /\ ftx.settled = "tx" /\ MemoPositions(ftx.message) # {}) =>
        IF \A j \in 1..(FirstMemo(ftx.message) - 1) : ~KeyMissing(ftx.message, j)
        THEN fresult = RecordAt(ftx.message, FirstMemo(ftx.message))
        ELSE fresult = FNull

\* a memo instruction with a record, after an instruction of another program
\* that carries other data
C15_Witness ==
    /\ fpc = "done"
    /\ ftx.settled = "tx"
    /\ MemoPositions(ftx.message) = {2}
    /\ ~KeyMissing(ftx.message, 1)
    /\ ftx.message.compiledInstructions[1].data = T_hello
    /\ ftx.message.compiledInstructions[2].data = serializeDockingReport(SampleReport)
    /\ fresult = FRecord(SampleReport)

-----------------------------------------------------------------------------
(* Properties of the Report view.                                          *)

\* the audit tab shows the panel for a record that was read back
ShowsRecord ==
    /\ rtab = "audit"
    /\ rjob.txHash # "none"
    /\ ~rflags.loading
    /\ ronChain.kind = "record"

\* the field of the record agrees with the local job
Agrees(field, record, job) ==
    CASE field = "jobId" -> record.jobId = JSStr(job.id)
      [] field = "moleculeName" -> record.moleculeName = JSStr(job.moleculeName)
      [] field = "score" -> ScoreClose(record.score, job)
      [] OTHER -> FALSE

\* C16: for a record that was read back the panel cross-checks each of the
\* four fields jobId, moleculeName, score and timestamp against the local
\* job, and shows a field as matching exactly when it agrees.
C16_AllFieldsChecked ==
    ShowsRecord =>
        LET panel == AuditPanel(rflags.loading, ronChain, rjob)
        IN  /\ panel.kind = "record"
            /\ {panel.rows[i].field : i \in DOMAIN panel.rows}
                   = {"jobId", "moleculeName", "score", "timestamp"}
            /\ \A i \in DOMAIN panel.rows :
                   panel.rows[i].matches = Agrees(panel.rows[i].field, ronChain.value, rjob)

\* C17: at no time is more than one ledger read-back, more than one
\* summary generation or more than one PDF export of the view in flight.
C17_OneInFlight ==
    /\ rpending.fetch <= 1
    /\ rpending.gen <= 1
    /\ rpending.export <= 1

\* C20: a verify request invokes onVerify, with the id of the job on
\* display, exactly when the wallet is connected; it is handled only for a
\* job whose status is not VERIFIED, the only jobs the control is offered for.
C20_VerifyGuard ==
    /\ [](\A i \in DOMAIN rlog :
             /\ rlog[i].invoked = rlog[i].connected
             /\ rlog[i].alerted = ~rlog[i].connected
             /\ (rlog[i].invoked => rlog[i].with = rlog[i].displayed))
    /\ [][rlog' # rlog =>
             /\ rjob.status # "VERIFIED"
             /\ Len(rlog') = Len(rlog) + 1
             /\ rlog'[Len(rlog')].connected = rconnected
             /\ rlog'[Len(rlog')].displayed = rjob.id]_vars

C20_Witness ==
    /\ Len(rlog) = 1
    /\ rlog[1].invoked
    /\ rlog[1].with = T_J1
    /\ rconnected

-----------------------------------------------------------------------------
(* Properties of handleExportPDF.                                          *)

\* the document has a block of this kind
Has(kind) == \E i \in DOMAIN xdoc.blocks : xdoc.blocks[i].kind = kind

\* C18: when capturing or embedding the molecule region or the charts
\* region fails, that region alone is missing: header, title, key metrics,
\* the other region, summary, transaction box and the footer of every page
\* are produced, the document is saved and no failure is reported.
C18_RegionFailureIsLocal ==
    (xpc = "done" /\ ~xin.saveFails) =>
        /\ xout.saved /\ ~xout.alerted
        /\ Has("header") /\ Has("title")
        /\ Has("summaryHeading") /\ Has("summary")
        /\ Has("metrics") = xin.hasStats
        /\ Has("verification") = xin.hasTx
        /\ Has("molImage") = (xin.hasMolNode /\ xin.molFails = "none")
        /\ Has("chartsImage") = (xin.hasChartsNode /\ xin.chartsFails = "none")
        /\ \A p \in 1..xdoc.pages :
              \E i \in DOMAIN xdoc.blocks :
                  xdoc.blocks[i].kind = "footer" /\ xdoc.blocks[i].page = p

C18_Witness ==
    /\ xpc = "done"
    /\ xin.hasMolNode /\ xin.molFails = "capture"
    /\ xin.hasChartsNode /\ xin.chartsFails = "none"
    /\ xin.hasStats /\ xin.hasTx
    /\ xout.saved
    /\ Has("chartsImage") /\ ~Has("molImage")

\* C19: every region image, the metrics box, the summary text and the
\* verification box end at or above 280 on their page.
C19_BlocksInsidePage ==
    \A i \in DOMAIN xdoc.blocks :
        xdoc.blocks[i].kind \in {"molImage", "chartsImage", "metrics",
                                 "summary", "verification"}
            => xdoc.blocks[i].bottom <= PageBottom

-----------------------------------------------------------------------------
(* The shape of what fetchJobFromChain resolves to.                        *)

\* C21: every record fetchJobFromChain resolves to is complete: jobId and
\* moleculeName are strings, score and timestamp are numbers.
C21_CompleteRecord ==
    (fpc = "done" /\ fresult.kind = "record") =>
        /\ fresult.value.jobId.t = "string"
        /\ fresult.value.moleculeName.t = "string"
        /\ fresult.value.score.t = "number"
        /\ fresult.value.timestamp.t = "number"

-----------------------------------------------------------------------------
(* Overlapping read-backs of the Report view.                              *)

\* C22: once no read-back is pending, onChainData is the result of the
\* read-back that was started last, in whatever order they resolved.
C22_LatestFetchWins ==
    (rpending.fetch = 0 /\ rpending.shown # "none") => rpending.shown = "latest"

\* C23: isLoadingChainData is true whenever a read-back is in flight, and
\* false once none is.
C23_LoadingWhilePending ==
    /\ (rpending.fetch > 0 => rflags.loading)
    /\ (rpending.fetch = 0 => ~rflags.loading)

-----------------------------------------------------------------------------
(* Summary generation in the Report view.                                  *)

\* C24: a pending generation always leads to isGenerating false with a
\* summary text in aiReport.
C24_AlwaysSummarised ==
    (rpending.gen > 0) ~> (~rflags.generating /\ raiReport # <<>>)

-----------------------------------------------------------------------------
(* The isExporting flag.                                                   *)

\* C25: an export that was started and has ended left isExporting false,
\* with the document saved or with the failure alert; isExporting is true
\* exactly while an export awaits a capture; a step that ends an export
\* resets it; a click while isExporting is true changes nothing.
C25_ExportingReset ==
    /\ [](xout.exporting <=> xpc \in {"mol", "charts"})
    /\ [][xpc # "done" /\ xpc' = "done" =>
             ~xout'.exporting /\ xout'.saved # xout'.alerted]_vars
    /\ [](xpc = "done" => ~xout.exporting /\ xout.saved # xout.alerted)
    /\ [][ExportStart /\ xout.exporting => UNCHANGED vars]_vars

\* an export with a capture to await ended with the failure alert
C25_Witness ==
    /\ xpc = "done"
    /\ xin.hasMolNode
    /\ xout.alerted
    /\ ~xout.exporting

-----------------------------------------------------------------------------
(* The wallet check of verifyJobOnChain.                                   *)

\* a Phantom provider is installed in the window
ProviderPresent(w) == w.phantom = "phantom" \/ w.solana = "phantom"

\* C26: a call of verifyJobOnChain made while no provider is present, or
\* while the provider's publicKey is null, ends at once with 'Wallet not
\* connected': no blockhash was requested and no transaction was built.
C26_NotConnectedFirst ==
    [][(vpc = "idle" /\ vpc' # "idle"
          /\ (~ProviderPresent(win) \/ walletKey = "null")) =>
             /\ vpc' = "done"
             /\ voutcome' = VThrew(ERR_NOT_CONNECTED)
             /\ vtrace' = <<>>
             /\ vtx' = NoTransaction]_vars

-----------------------------------------------------------------------------
(* Properties of MoleculeViewer.                                           *)

\* C27: the zoom factor stays within [0.5, 3] and the pitch rotation.x
\* within [-90, 90] degrees, whatever zoom-ins, zoom-outs, wheel turns,
\* resets and drags have happened.
C27_ZoomAndPitchBounded ==
    /\ zoom >= ZoomMin
    /\ zoom <= ZoomMax
    /\ rotation.x >= -PitchMax
    /\ rotation.x <= PitchMax

\* zoomed in to the limit during a drag that pitched to the limit
C27_Witness ==
    /\ zoom = ZoomMax
    /\ rotation.x = -PitchMax
    /\ isDragging

\* C28: a hydrogen bond is selected only while hydrogen bonds are shown.
C28_SelectedOnlyWhenShown ==
    selectedHBond # "null" => showHBonds

\* a bond was selected by an atom click
C28_Witness ==
    /\ selectedHBond = "hb1"
    /\ showHBonds

\* C29: reset restores zoom 1, pan (0,0), rotation (0,0), auto-rotation,
\* hidden hydrogen bonds with none selected and the rotate mode, and leaves
\* the view mode and the background mode as they are; a mouse move changes
\* pan only in pan mode and rotation only in rotate mode, nothing but pan
\* and rotation, and nothing at all unless a drag is under way; a drag is
\* under way from a mouse-down to the next mouse-up or mouse-leave.
C29_ResetAndMove ==
    /\ [][HandleReset =>
             /\ zoom' = ZoomOne
             /\ pan' = [x |-> 0, y |-> 0]
             /\ rotation' = [x |-> 0, y |-> 0]
             /\ isRotating'
             /\ ~showHBonds'
             /\ selectedHBond' = "null"
             /\ interactionMode' = "rotate"
             /\ UNCHANGED <<viewMode, bgMode>>]_vars
    /\ [][HandleMouseMove =>
             /\ (pan' # pan => interactionMode = "pan")
             /\ (rotation' # rotation => interactionMode = "rotate")
             /\ (~isDragging => UNCHANGED vars)
             /\ UNCHANGED <<viewMode, isRotating, zoom, bgMode, interactionMode,
                            showHBonds, selectedHBond, isDragging>>]_vars
    /\ [][/\ HandleMouseDown => isDragging'
          /\ HandleMouseUp => ~isDragging'
          /\ isDragging' # isDragging => HandleMouseDown \/ HandleMouseUp]_vars

\* a drag in pan mode has moved the view, with every setting that reset
\* restores, and the two it keeps, changed
C29_Witness ==
    /\ isDragging
    /\ interactionMode = "pan"
    /\ pan # [x |-> 0, y |-> 0]
    /\ rotation # [x |-> 0, y |-> 0]
    /\ zoom # ZoomOne
    /\ showHBonds
    /\ selectedHBond # "null"
    /\ viewMode = "surface"
    /\ bgMode = "light"

====
